---- MODULE Spec2Model ----
(***************************************************************************)
(* A model of the Joplin MCP server's API client: the transport client     *)
(* (HttpClient.request), the pagination aggregator (paginatedRequest), the *)
(* note, tag and resource operations built on them, and the CallTool       *)
(* handler cases that compose them.                                        *)
(*                                                                         *)
(* Every asynchronous function is a small state machine per client process *)
(* p: a request is logged in `calls` when fetch is called and its outcome  *)
(* is filled in when the awaited response arrives.  The remote service is  *)
(* the environment: it picks the outcome of every request.                 *)
(***************************************************************************)
EXTENDS Integers, Sequences, FiniteSets, TLC

VARIABLES
    cl,      \* cl[p]: the state of client invocation p (operation, pc, locals)
    calls,   \* the log of fetch() calls, in issue order, with their outcomes
    svc      \* the remote service's data (tags, associations, bodies, ...)

vars == <<cl, calls, svc>>

----------------------------------------------------------------------------
(* Bounds of the model *)

MaxPages == 2        \* pages the service answers before the model stops it
MaxPageItems == 1    \* items the service puts in one page
MaxBody == 1         \* characters of a note body or of a content argument
MaxNameLen == 3      \* characters of a comma-separated tag list argument
MaxResults == 3      \* candidates the service returns for one tag search
MaxPortLen == 5      \* characters of a JOPLIN_PORT value

(* Program constants *)

DefaultLimit == 100  \* paginatedRequest(endpoint, limit = 100)

Procs == {1, 2}

Items == {"x", "y"}  \* items of a listed collection
NoteIds == {1, 2}
ResourceIds == {1}
Chars == {"a", "b"}  \* characters of note bodies
NameChars == {"w", "u", ",", " "}  \* characters of tag list arguments

----------------------------------------------------------------------------
(* Optional arguments: undefined, or a given value *)

NoArg == [given |-> FALSE]
Arg(v) == [given |-> TRUE, v |-> v]

RECURSIVE Concat(_)
Concat(ss) == IF ss = <<>> THEN <<>> ELSE Head(ss) \o Concat(Tail(ss))

SeqsUpTo(S, n) == UNION {[1..k -> S] : k \in 0..n}

InjectiveSeqsUpTo(S, n) ==
    {s \in SeqsUpTo(S, n) : \A i, j \in 1..Len(s) : s[i] = s[j] => i = j}

----------------------------------------------------------------------------
(* Strings are sequences of characters *)

\* String.prototype.toLowerCase on the model's alphabet
LowerChar(c) == CASE c = "W" -> "w" [] c = "U" -> "u" [] OTHER -> c
ToLowerCase(s) == [i \in 1..Len(s) |-> LowerChar(s[i])]

\* String.prototype.trim
RECURSIVE TrimStart(_)
TrimStart(s) == IF s # <<>> /\ Head(s) = " " THEN TrimStart(Tail(s)) ELSE s
RECURSIVE TrimEnd(_)
TrimEnd(s) ==
    IF s # <<>> /\ s[Len(s)] = " " THEN TrimEnd(SubSeq(s, 1, Len(s) - 1)) ELSE s
Trim(s) == TrimEnd(TrimStart(s))

\* String.prototype.split(','): the pieces between the commas, empty ones
\* included.
RECURSIVE SplitFrom(_, _)
SplitFrom(s, piece) ==
    IF s = <<>> THEN <<piece>>
    ELSE IF Head(s) = "," THEN <<piece>> \o SplitFrom(Tail(s), <<>>)
    ELSE SplitFrom(Tail(s), Append(piece, Head(s)))
Split(s) == SplitFrom(s, <<>>)

\* encodeURIComponent on the model's alphabet
EncodeChar(c) == CASE c = " " -> "%20" [] c = "," -> "%2C" [] OTHER -> c
EncodeURIComponent(s) == [i \in 1..Len(s) |-> EncodeChar(s[i])]
DecodeChar(c) == CASE c = "%20" -> " " [] c = "%2C" -> "," [] OTHER -> c
DecodeURIComponent(s) == [i \in 1..Len(s) |-> DecodeChar(s[i])]

Contains(s, part) ==
    \E i \in 0..(Len(s) - Len(part)) : SubSeq(s, i + 1, i + Len(part)) = part

----------------------------------------------------------------------------
(* JSON values and fetch outcomes *)

Null == [t |-> "null"]

\* A paginated envelope { items, has_more }.  items is an array or absent;
\* has_more is the boolean true, the boolean false, absent, or a truthy
\* value that is not a boolean (1, "true").
Page(items, hm) == [t |-> "page", items |-> items, has_more |-> hm]
Arr(s) == [arr |-> TRUE, v |-> s]
NotArr == [arr |-> FALSE]
HasMoreValues == {"true", "false", "absent", "truthy"}

PageValues(pool) ==
    {Page(Arr(s), hm) : s \in SeqsUpTo(pool, MaxPageItems), hm \in HasMoreValues}
        \cup {Page(NotArr, hm) : hm \in {"true", "false"}}

\* What a fetch can come to: a success status with a JSON text, a success
\* status with an empty text, a non-success status with an error text, a
\* rejected fetch (network failure).
Pending == [k |-> "pending"]
OkJson(v) == [k |-> "json", v |-> v]
OkEmpty == [k |-> "empty"]
HttpError(s, t) == [k |-> "http", status |-> s, text |-> t]
NetError(m) == [k |-> "net", msg |-> m]

Failures == {HttpError(s, "detail") : s \in {404, 500}} \cup {NetError("ECONNREFUSED")}

Outcomes(values) == {OkJson(v) : v \in values} \cup {OkEmpty} \cup Failures

----------------------------------------------------------------------------
(* HttpClient.request: the value or the error one fetch outcome becomes *)

Ok(v) == [ok |-> TRUE, val |-> v]
Err(m) == [ok |-> FALSE, err |-> m]

\* Mutant of ApiErrorMessage: the response text is left out.
ApiErrorMessageNoText(status, text) == <<"Joplin API error (", status, ")">>

ApiErrorMessage(status, text) == <<"Joplin API error (", status, "): ", text>>
ConnectMessage(m) == <<"Failed to connect to Joplin: ">> \o m

\* Mutant of Request: a non-success status is taken for an empty answer.
RequestIgnoresStatus(out) ==
    CASE out.k = "json" -> Ok(out.v)
      [] out.k = "empty" -> Ok(Null)
      [] out.k = "http" -> Ok(Null)
      [] out.k = "net" -> Err(ConnectMessage(<<out.msg>>))

Request(out) ==
    CASE out.k = "json" -> Ok(out.v)
      [] out.k = "empty" -> Ok(Null)
      [] out.k = "http" -> Err(ConnectMessage(ApiErrorMessage(out.status, out.text)))
      [] out.k = "net" -> Err(ConnectMessage(<<out.msg>>))

----------------------------------------------------------------------------
(* Endpoints: a path, the ids filled into it, and the query parameters in  *)
(* the order they are appended, each with the separator written before it  *)

NoBody == [none |-> TRUE]

Endpoint(path, ids, query) == [path |-> path, ids |-> ids, query |-> query]

IncludesQuery(ep) == ep.query # <<>>

Param(ep, key, val) ==
    [ep EXCEPT !.query = @ \o << <<IF IncludesQuery(ep) THEN "&" ELSE "?", key, val>> >>]

HasParam(ep, key) == \E i \in 1..Len(ep.query) : ep.query[i][2] = key
ParamOf(ep, key) ==
    ep.query[CHOOSE i \in 1..Len(ep.query) : ep.query[i][2] = key][3]

Call(p, method, ep, body) ==
    [proc |-> p, method |-> method, endpoint |-> ep, body |-> body, out |-> Pending]

CallsOf(p) == SelectSeq(calls, LAMBDA c : c.proc = p)

----------------------------------------------------------------------------
(* HttpClient.paginatedRequest *)

EffectiveLimit(limit) == IF limit.given THEN limit.v ELSE DefaultLimit

PaginatedEndpoint(ep, limit, page) == Param(Param(ep, "limit", limit), "page", page)

PageItems(response) ==
    IF response.t = "page" /\ response.items.arr THEN response.items.v ELSE <<>>

\* Mutant of HasMore: any truthy has_more continues the loop.
HasMoreTruthy(response) ==
    response.t = "page" /\ response.has_more \in {"true", "truthy"}

\* Mutant of HasMore: an empty page is taken as the end of the collection.
HasMoreUnlessEmpty(response) ==
    /\ response.t = "page"
    /\ response.has_more = "true"
    /\ response.items.arr
    /\ response.items.v # <<>>

HasMore(response) == response.t = "page" /\ response.has_more = "true"

EmptyResponseMessage(ep) == <<"Unexpected empty response from paginated endpoint: ", ep>>

PgIdle ==
    [st |-> "idle", endpoint |-> Endpoint(<<>>, <<>>, <<>>), limit |-> 0,
     page |-> 0, allItems |-> <<>>, req |-> 0, err |-> <<>>]

\* The call of paginatedRequest up to its first await: page 1 is requested.
\* `at` is the index the request gets in the log.
PgStart(ep, limit, at) ==
    [st |-> "await", endpoint |-> ep, limit |-> EffectiveLimit(limit),
     page |-> 1, allItems |-> <<>>, req |-> at, err |-> <<>>]

PgRequest(p, pg) ==
    Call(p, "GET", PaginatedEndpoint(pg.endpoint, pg.limit, pg.page), NoBody)

\* Mutants of PgAfter: the page's items replace the accumulator; a null
\* response ends the loop as if it were a last, empty page.
PgAfterOverwrite(pg, out, at) ==
    LET r == Request(out) IN
    IF ~r.ok THEN [pg EXCEPT !.st = "failed", !.err = r.err]
    ELSE IF r.val = Null THEN [pg EXCEPT !.st = "failed"]
    ELSE LET more == r.val.t = "page" /\ r.val.has_more = "true" IN
         [pg EXCEPT !.allItems = IF r.val.items.arr THEN r.val.items.v ELSE <<>>,
                    !.page = @ + 1,
                    !.st = IF more THEN "await" ELSE "done",
                    !.req = IF more THEN at ELSE @]

PgAfterNullEnds(pg, out, at) ==
    LET r == Request(out) IN
    IF ~r.ok THEN [pg EXCEPT !.st = "failed", !.err = r.err]
    ELSE IF r.val = Null THEN [pg EXCEPT !.st = "done"]
    ELSE LET more == r.val.t = "page" /\ r.val.has_more = "true" IN
         [pg EXCEPT !.allItems = @ \o (IF r.val.items.arr THEN r.val.items.v ELSE <<>>),
                    !.page = @ + 1,
                    !.st = IF more THEN "await" ELSE "done",
                    !.req = IF more THEN at ELSE @]

\* One turn of the loop after the awaited response: the paginator's next
\* state.  `at` is the log index a further request would get.
PgAfter(pg, out, at) ==
    LET r == Request(out) IN
    IF ~r.ok THEN [pg EXCEPT !.st = "failed", !.err = r.err]
    ELSE IF r.val = Null
    THEN [pg EXCEPT !.st = "failed",
                    !.err = EmptyResponseMessage(
                                PaginatedEndpoint(pg.endpoint, pg.limit, pg.page))]
    ELSE LET more == HasMore(r.val) IN
         [pg EXCEPT !.allItems = @ \o PageItems(r.val),
                    !.page = @ + 1,
                    !.st = IF more THEN "await" ELSE "done",
                    !.req = IF more THEN at ELSE @]

\* The items the service can list at an endpoint: the notes that reference
\* a resource are taken from the service's data.
PoolOf(ep) ==
    CASE ep.path = <<"resources", "notes">> -> svc.refs[ep.ids[1]]
      [] ep.path = <<"notes", "tags">> ->
            {svc.tags[i] : i \in {j \in 1..Len(svc.tags) :
                                      <<svc.tags[j].id, ep.ids[1]>> \in svc.assoc}}
      [] ep.path = <<"tags", "notes">> ->
            {n \in svc.notes : <<ep.ids[1], n>> \in svc.assoc}
      [] OTHER -> Items

\* The tags a tag search for `query` may return: those whose title holds
\* the query, whatever the case (prefix and substring matches included).
SearchCandidates(query) ==
    {svc.tags[i] : i \in {j \in 1..Len(svc.tags) :
                              Contains(ToLowerCase(svc.tags[j].title), ToLowerCase(query))}}

\* The pages the service may answer at an endpoint.  A tag search returns
\* candidates in any order, any of them left out, in one page (the tags of
\* the model are far fewer than the page size); every other collection is
\* paged as the service pleases.
PageResponses(ep) ==
    IF ep.path = <<"search">>
    THEN {Page(Arr(r), "false") :
            r \in InjectiveSeqsUpTo(
                    SearchCandidates(DecodeURIComponent(ParamOf(ep, "query"))),
                    MaxResults)}
    ELSE PageValues(PoolOf(ep))

----------------------------------------------------------------------------
(* Client invocations *)

Pend == [st |-> "pending"]
Returned(v) == [st |-> "ok", val |-> v]
Thrown(m) == [st |-> "error", err |-> m]

\* A single awaited request outside the paginator (getNote's note fetch).
NoteIdle == [st |-> "idle", req |-> 0]

\* wait names what the invocation awaits: "pg" (a paginatedRequest),
\* "getNote" (the Promise.all of getNote), "req" (one request, whose log
\* index is req), or "none".
Idle ==
    [op |-> "idle", pc |-> "idle", wait |-> "none", args |-> NoArg,
     pg |-> PgIdle, note |-> NoteIdle, req |-> 0, tags |-> <<>>, i |-> 0,
     noteId |-> 0, res |-> Pend]

\* The outcome of an awaited paginatedRequest, as the awaiting code sees it.
PgSettled(pg) == pg.st \in {"done", "failed"}
PgResult(pg) == IF pg.st = "done" THEN Returned(pg.allItems) ELSE Thrown(pg.err)

\* Mutant of GetNoteSettled: the merged record is produced as soon as the
\* note fetch has answered.
GetNoteSettledOnNote(c) == c.note.st \in {"ok", "failed"}

\* Promise.all([note, tags]): rejected as soon as one of the two rejects,
\* fulfilled when both are fulfilled.
GetNoteSettled(c) ==
    \/ c.note.st = "failed"
    \/ c.pg.st = "failed"
    \/ c.note.st = "ok" /\ c.pg.st = "done"

\* The continuation of a settled await runs before any further response is
\* delivered (run to completion of the microtask queue).
Runnable(p) ==
    \/ cl[p].wait = "pg" /\ PgSettled(cl[p].pg)
    \/ cl[p].wait = "getNote" /\ GetNoteSettled(cl[p])

Busy == \E q \in Procs : Runnable(q)

\* A page response arrives at process p's paginator.
PgRecv(p) ==
    /\ ~Busy
    /\ cl[p].pg.st = "await"
    /\ cl[p].pg.page <= MaxPages
    /\ \E out \in Outcomes(PageResponses(cl[p].pg.endpoint)) :
        LET pg == PgAfter(cl[p].pg, out, Len(calls) + 1)
            answered == [calls EXCEPT ![cl[p].pg.req].out = out]
        IN /\ cl' = [cl EXCEPT ![p].pg = pg]
           /\ calls' = IF pg.st = "await"
                       THEN Append(answered, PgRequest(p, pg))
                       ELSE answered
    /\ UNCHANGED svc

----------------------------------------------------------------------------
(* TagsApi.listTags *)

ListTagsEndpoint(fields, orderBy, orderDir) ==
    LET e0 == Param(Endpoint(<<"tags">>, <<>>, <<>>), "fields",
                    IF fields.given THEN fields.v ELSE "id,title,created_time,updated_time")
        e1 == IF orderBy.given THEN Param(e0, "order_by", orderBy.v) ELSE e0
    IN IF orderDir.given THEN Param(e1, "order_dir", orderDir.v) ELSE e1

ListTags(p) ==
    /\ cl[p].op = "idle"
    /\ \E limit \in {NoArg, Arg(1), Arg(2)}, orderBy \in {NoArg, Arg("title")} :
        LET ep == ListTagsEndpoint(NoArg, orderBy, NoArg)
            pg == PgStart(ep, limit, Len(calls) + 1)
        IN /\ cl' = [cl EXCEPT ![p] = [Idle EXCEPT !.op = "listTags", !.pc = "await",
                                                   !.wait = "pg",
                                                   !.args = [limit |-> limit],
                                                   !.pg = pg]]
           /\ calls' = Append(calls, PgRequest(p, pg))
    /\ UNCHANGED svc

ListTagsReturn(p) ==
    /\ cl[p].op = "listTags"
    /\ cl[p].pc = "await"
    /\ Runnable(p)
    /\ cl' = [cl EXCEPT ![p].pc = "done", ![p].wait = "none",
                         ![p].res = PgResult(cl[p].pg)]
    /\ UNCHANGED <<calls, svc>>

----------------------------------------------------------------------------
(* Results of the CallTool handler *)

ToolResult(text) == [text |-> text]
ToolError(message) == [text |-> <<"Error: ">> \o message, isError |-> TRUE]

\* The handler's catch block: an error thrown by the case becomes a result.
Caught(res) == IF res.st = "error" THEN Returned(ToolError(res.err)) ELSE res

----------------------------------------------------------------------------
(* ResourcesApi.getResourceNotes, ResourcesApi.deleteResource and the      *)
(* CallTool handler's case 'delete_resource'                               *)

GetResourceNotesEndpoint(resourceId, fields) ==
    Param(Endpoint(<<"resources", "notes">>, <<resourceId>>, <<>>), "fields",
          IF fields.given THEN fields.v
          ELSE "id,title,parent_id,created_time,updated_time")

DeleteResourceCall(p, resourceId) ==
    Call(p, "DELETE", Endpoint(<<"resources">>, <<resourceId>>, <<>>), NoBody)

\* Mutant of IsReferenced: one referencing note is not enough to refuse.
IsReferencedByMany(items) == Len(items) > 1

\* items && items.length > 0
IsReferenced(items) == Len(items) > 0

ReferencedWarning(items) ==
    <<"Warning: This resource is used in ", Len(items),
      " note(s). Deleting it will break those references.", items>>

DeleteResourceTool(p) ==
    /\ cl[p].op = "idle"
    /\ \E r \in ResourceIds :
        LET pg == PgStart(GetResourceNotesEndpoint(r, NoArg), NoArg, Len(calls) + 1)
        IN /\ cl' = [cl EXCEPT ![p] = [Idle EXCEPT !.op = "delete_resource",
                                                   !.pc = "lookup",
                                                   !.wait = "pg",
                                                   !.args = [resource_id |-> r],
                                                   !.pg = pg]]
           /\ calls' = Append(calls, PgRequest(p, pg))
    /\ UNCHANGED svc

\* Mutant of DeleteResourceChecked: the delete is issued only if no note
\* references the resource at that moment.
DeleteResourceCheckedFresh(p) ==
    /\ cl[p].op = "delete_resource"
    /\ cl[p].pc = "lookup"
    /\ Runnable(p)
    /\ IF cl[p].pg.st = "failed"
       THEN /\ cl' = [cl EXCEPT ![p].pc = "done", ![p].wait = "none",
                                ![p].res = Caught(PgResult(cl[p].pg))]
            /\ calls' = calls
       ELSE IF IsReferenced(cl[p].pg.allItems) \/ svc.refs[cl[p].args.resource_id] # {}
       THEN /\ cl' = [cl EXCEPT ![p].pc = "done", ![p].wait = "none",
                                ![p].res = Returned(ToolResult(
                                    ReferencedWarning(cl[p].pg.allItems)))]
            /\ calls' = calls
       ELSE /\ cl' = [cl EXCEPT ![p].pc = "delete", ![p].wait = "req",
                                ![p].req = Len(calls) + 1]
            /\ calls' = Append(calls, DeleteResourceCall(p, cl[p].args.resource_id))
    /\ UNCHANGED svc

\* The lookup has settled: refuse, delete, or report the lookup's error.
DeleteResourceChecked(p) ==
    /\ cl[p].op = "delete_resource"
    /\ cl[p].pc = "lookup"
    /\ Runnable(p)
    /\ IF cl[p].pg.st = "failed"
       THEN /\ cl' = [cl EXCEPT ![p].pc = "done", ![p].wait = "none",
                                ![p].res = Caught(PgResult(cl[p].pg))]
            /\ calls' = calls
       ELSE IF IsReferenced(cl[p].pg.allItems)
       THEN /\ cl' = [cl EXCEPT ![p].pc = "done", ![p].wait = "none",
                                ![p].res = Returned(ToolResult(
                                    ReferencedWarning(cl[p].pg.allItems)))]
            /\ calls' = calls
       ELSE /\ cl' = [cl EXCEPT ![p].pc = "delete", ![p].wait = "req",
                                ![p].req = Len(calls) + 1]
            /\ calls' = Append(calls, DeleteResourceCall(p, cl[p].args.resource_id))
    /\ UNCHANGED svc

\* The service's answer to DELETE /resources/:id
DeleteResourceDone(p) ==
    /\ cl[p].op = "delete_resource"
    /\ cl[p].pc = "delete"
    /\ ~Busy
    /\ \E out \in Outcomes({}) :
        LET r == Request(out) IN
        /\ calls' = [calls EXCEPT ![cl[p].req].out = out]
        /\ svc' = IF r.ok
                  THEN [svc EXCEPT !.resources = @ \ {cl[p].args.resource_id}]
                  ELSE svc
        /\ cl' = [cl EXCEPT
                    ![p].pc = "done",
                    ![p].wait = "none",
                    ![p].req = 0,
                    ![p].res = IF r.ok
                               THEN Returned(ToolResult(
                                        <<"Deleted resource: ", cl[p].args.resource_id>>))
                               ELSE Caught(Thrown(r.err))]

----------------------------------------------------------------------------
(* JoplinApiClient.getNote, updateNote, appendToNote, prependToNote *)

Bodies == SeqsUpTo(Chars, MaxBody)

DefaultNoteFields ==
    "id,title,body,parent_id,created_time,updated_time,user_created_time,user_updated_time,is_todo,todo_completed"

GetNoteEndpoint(noteId, fields) ==
    Param(Endpoint(<<"notes">>, <<noteId>>, <<>>), "fields",
          IF fields.given THEN fields.v ELSE DefaultNoteFields)

NoteTagsEndpoint(noteId) == Endpoint(<<"notes", "tags">>, <<noteId>>, <<>>)

NoteEndpoint(noteId) == Endpoint(<<"notes">>, <<noteId>>, <<>>)

\* The service's JSON for note n when id and body are requested.
NoteJson(n) == [t |-> "note", id |-> n, body |-> svc.body[n]]

\* The service's JSON for a note that comes with a tags field of its own
OwnTags == <<[id |-> 0, title |-> <<"o">>]>>
NoteJsonTagged(n) == [t |-> "note", id |-> n, body |-> svc.body[n], tags |-> OwnTags]

\* What the service may answer to the note fetch c
NoteAnswers(c) ==
    IF ParamOf(c.endpoint, "fields") = "id,body"
    THEN {NoteJson(c.endpoint.ids[1])}
    ELSE {NoteJson(c.endpoint.ids[1]), NoteJsonTagged(c.endpoint.ids[1])}

\* Mutant of MergeNote: a tags field of the note itself is kept.
MergeNoteKeepsOwnTags(note, tags) ==
    LET own == IF note = Null THEN {} ELSE DOMAIN note IN
    [k \in own \cup {"tags"} |-> IF k \in own THEN note[k] ELSE tags]

\* { ...note, tags }: the note's own fields, with tags set or replaced;
\* spreading null contributes nothing.
MergeNote(note, tags) ==
    LET own == IF note = Null THEN {} ELSE DOMAIN note IN
    [k \in own \cup {"tags"} |-> IF k = "tags" THEN tags ELSE note[k]]

\* note.body as string concatenation sees it: a missing field reads as the
\* text "undefined".
BodyText(note) == IF "body" \in DOMAIN note THEN note.body ELSE <<"undefined">>

\* Mutants of AppendedBody and PrependedBody: one newline between the parts.
AppendedBodyOneNewline(body, content) == body \o <<"\n">> \o content
PrependedBodyOneNewline(body, content) == content \o <<"\n">> \o body

AppendedBody(body, content) == body \o <<"\n", "\n">> \o content
PrependedBody(body, content) == content \o <<"\n", "\n">> \o body

\* getNote up to its await: the note fetch is issued, then page 1 of the
\* note's tag list.
GetNoteCalls(p, noteId, fields, at) ==
    <<Call(p, "GET", GetNoteEndpoint(noteId, fields), NoBody),
      PgRequest(p, PgStart(NoteTagsEndpoint(noteId), NoArg, at + 1))>>

ReadModifyWrite(p, op) ==
    /\ cl[p].op = "idle"
    /\ \E n \in svc.notes, content \in Bodies :
        /\ cl' = [cl EXCEPT ![p] =
                    [Idle EXCEPT !.op = op, !.pc = "getNote", !.wait = "getNote",
                                 !.args = [note_id |-> n, content |-> content],
                                 !.note = [st |-> "await", req |-> Len(calls) + 1],
                                 !.pg = PgStart(NoteTagsEndpoint(n), NoArg,
                                                Len(calls) + 2)]]
        /\ calls' = calls \o GetNoteCalls(p, n, Arg("id,body"), Len(calls) + 1)
    /\ UNCHANGED svc

AppendToNote(p) == ReadModifyWrite(p, "appendToNote")
PrependToNote(p) == ReadModifyWrite(p, "prependToNote")

\* The service's answer to getNote's GET /notes/:id
NoteRecv(p) ==
    /\ ~Busy
    /\ cl[p].note.st = "await"
    /\ \E out \in Outcomes(NoteAnswers(calls[cl[p].note.req])) :
        LET r == Request(out) IN
        /\ calls' = [calls EXCEPT ![cl[p].note.req].out = out]
        /\ cl' = [cl EXCEPT ![p].note =
                    IF r.ok THEN [st |-> "ok", req |-> @.req, val |-> r.val]
                    ELSE [st |-> "failed", req |-> @.req, err |-> r.err]]
    /\ UNCHANGED svc

\* The error Promise.all rejects with: that of the promise that rejected.
GetNoteError(c) == IF c.note.st = "failed" THEN c.note.err ELSE c.pg.err

GetNote(p) ==
    /\ cl[p].op = "idle"
    /\ \E n \in svc.notes, fields \in {NoArg, Arg("id,title")} :
        /\ cl' = [cl EXCEPT ![p] =
                    [Idle EXCEPT !.op = "getNote", !.pc = "getNote", !.wait = "getNote",
                                 !.args = [note_id |-> n, fields |-> fields],
                                 !.note = [st |-> "await", req |-> Len(calls) + 1],
                                 !.pg = PgStart(NoteTagsEndpoint(n), NoArg,
                                                Len(calls) + 2)]]
        /\ calls' = calls \o GetNoteCalls(p, n, fields, Len(calls) + 1)
    /\ UNCHANGED svc

\* Mutant of GetNoteReturn: a rejection cancels the pagination that is
\* still under way.
GetNoteReturnCancels(p) ==
    /\ cl[p].op = "getNote"
    /\ cl[p].pc = "getNote"
    /\ Runnable(p)
    /\ cl' = [cl EXCEPT ![p].pc = "done", ![p].wait = "none",
                         ![p].pg.st = IF cl[p].note.st = "failed" /\ @ = "await"
                                      THEN "cancelled" ELSE @,
                         ![p].res = IF cl[p].note.st # "failed" /\ cl[p].pg.st # "failed"
                                    THEN Returned(MergeNote(cl[p].note.val,
                                                            cl[p].pg.allItems))
                                    ELSE Thrown(GetNoteError(cl[p]))]
    /\ UNCHANGED <<calls, svc>>

\* Promise.all has settled: the merged record is returned, or the error of
\* the fetch that failed is thrown.
GetNoteReturn(p) ==
    /\ cl[p].op = "getNote"
    /\ cl[p].pc = "getNote"
    /\ Runnable(p)
    /\ cl' = [cl EXCEPT ![p].pc = "done", ![p].wait = "none",
                         ![p].res = IF cl[p].note.st # "failed" /\ cl[p].pg.st # "failed"
                                    THEN Returned(MergeNote(cl[p].note.val,
                                                            cl[p].pg.allItems))
                                    ELSE Thrown(GetNoteError(cl[p]))]
    /\ UNCHANGED <<calls, svc>>

\* Mutant of UpdatedBody: the body is rebuilt from what the service holds
\* when the write is prepared.
UpdatedBodyFresh(op, note, content) ==
    LET body == IF "id" \in DOMAIN note THEN svc.body[note.id] ELSE BodyText(note) IN
    IF op = "appendToNote" THEN AppendedBody(body, content)
    ELSE PrependedBody(body, content)

UpdatedBody(op, note, content) ==
    IF op = "appendToNote" THEN AppendedBody(BodyText(note), content)
    ELSE PrependedBody(BodyText(note), content)

\* Mutant of NoteRead: a failure of the tag list is passed over when the
\* note itself has been read.
NoteReadDespiteTags(p) ==
    /\ cl[p].op \in {"appendToNote", "prependToNote"}
    /\ cl[p].pc = "getNote"
    /\ Runnable(p)
    /\ IF cl[p].note.st = "ok"
       THEN LET note == MergeNote(cl[p].note.val, cl[p].pg.allItems)
                updatedBody == UpdatedBody(cl[p].op, note, cl[p].args.content)
            IN /\ cl' = [cl EXCEPT ![p].pc = "write", ![p].wait = "req",
                                   ![p].req = Len(calls) + 1]
               /\ calls' = Append(calls, Call(p, "PUT", NoteEndpoint(cl[p].args.note_id),
                                              [body |-> updatedBody]))
       ELSE /\ cl' = [cl EXCEPT ![p].pc = "done", ![p].wait = "none",
                                ![p].res = Thrown(GetNoteError(cl[p]))]
            /\ calls' = calls
    /\ UNCHANGED svc

\* getNote has settled: the body is rebuilt and written back with
\* updateNote, or getNote's error is thrown on.
NoteRead(p) ==
    /\ cl[p].op \in {"appendToNote", "prependToNote"}
    /\ cl[p].pc = "getNote"
    /\ Runnable(p)
    /\ IF cl[p].note.st # "failed" /\ cl[p].pg.st # "failed"
       THEN LET note == MergeNote(cl[p].note.val, cl[p].pg.allItems)
                updatedBody == UpdatedBody(cl[p].op, note, cl[p].args.content)
            IN /\ cl' = [cl EXCEPT ![p].pc = "write", ![p].wait = "req",
                                   ![p].req = Len(calls) + 1]
               /\ calls' = Append(calls, Call(p, "PUT", NoteEndpoint(cl[p].args.note_id),
                                              [body |-> updatedBody]))
       ELSE /\ cl' = [cl EXCEPT ![p].pc = "done", ![p].wait = "none",
                                ![p].res = Thrown(GetNoteError(cl[p]))]
            /\ calls' = calls
    /\ UNCHANGED svc

\* The service's answer to updateNote's PUT /notes/:id
NoteWritten(p) ==
    /\ cl[p].op \in {"appendToNote", "prependToNote"}
    /\ cl[p].pc = "write"
    /\ ~Busy
    /\ \E out \in Outcomes({[t |-> "note", id |-> cl[p].args.note_id]}) :
        LET r == Request(out) IN
        /\ calls' = [calls EXCEPT ![cl[p].req].out = out]
        /\ svc' = IF r.ok
                  THEN [svc EXCEPT !.body[cl[p].args.note_id] = calls[cl[p].req].body.body]
                  ELSE svc
        /\ cl' = [cl EXCEPT ![p].pc = "done", ![p].wait = "none", ![p].req = 0,
                            ![p].res = IF r.ok THEN Returned(r.val) ELSE Thrown(r.err)]

----------------------------------------------------------------------------
(* NotesApi.searchNotes, TagsApi.findOrCreateTag, TagsApi.addTagsToNote *)

Undefined == [t |-> "undefined"]

SearchEndpoint(query, type) ==
    LET e == Param(Endpoint(<<"search">>, <<>>, <<>>), "query", EncodeURIComponent(query))
    IN IF type.given THEN Param(e, "type", type.v) ELSE e

\* tagNames.split(',').map((t) => t.trim()).filter((t) => t)
ParseTagNames(tagNames) ==
    SelectSeq([i \in 1..Len(Split(tagNames)) |-> Trim(Split(tagNames)[i])],
              LAMBDA t : t # <<>>)

\* Mutant of ExactMatch: the first candidate is taken for the match.
ExactMatchIsFirst(items, tagName) == items[1]

\* Mutant of AssociateCall: the two ids change places.
AssociateCallSwapped(p, tagId, noteId) ==
    Call(p, "POST", [path |-> <<"tags", "notes">>, ids |-> <<noteId>>, query |-> <<>>],
         [id |-> tagId])

\* Mutant of TitleMatches: the comparison is case-sensitive.
TitleMatchesCase(t, tagName) == t.title = tagName

\* Mutant of TitleMatches: a title that begins with the name matches.
TitleMatchesPrefix(t, tagName) ==
    /\ Len(t.title) >= Len(tagName)
    /\ ToLowerCase(SubSeq(t.title, 1, Len(tagName))) = ToLowerCase(tagName)

\* t.title.toLowerCase() === tagName.toLowerCase()
TitleMatches(t, tagName) == ToLowerCase(t.title) = ToLowerCase(tagName)

\* Mutant of HasExactMatch: the search result is never taken for a match.
HasExactMatchNever(items, tagName) == FALSE

\* items.find(...): the first item that matches, if any
HasExactMatch(items, tagName) == \E i \in 1..Len(items) : TitleMatches(items[i], tagName)
ExactMatch(items, tagName) ==
    items[CHOOSE i \in 1..Len(items) :
            /\ TitleMatches(items[i], tagName)
            /\ \A j \in 1..(i - 1) : ~TitleMatches(items[j], tagName)]

TagSearch(tagName, at) == PgStart(SearchEndpoint(tagName, Arg("tag")), NoArg, at)

CreateTagCall(p, tagName) ==
    Call(p, "POST", Endpoint(<<"tags">>, <<>>, <<>>), [title |-> tagName])

AssociateCall(p, tagId, noteId) ==
    Call(p, "POST", Endpoint(<<"tags", "notes">>, <<tagId>>, <<>>), [id |-> noteId])

TagInputs == SeqsUpTo(NameChars, MaxNameLen)

\* What the operation returns once the tag loop is over: addTagsToNote
\* returns nothing, createNote returns the note it created.
TagLoopResult(c) == IF c.op = "createNote" THEN Returned(c.note.val) ELSE Returned(Undefined)

\* The body of addTagsToNote up to its first await, in an invocation c
\* that continues with it: no name, and the loop is over; otherwise the
\* first name is searched.
EnterTagLoop(c, p, noteId, tagNames, log) ==
    LET tags == ParseTagNames(tagNames) IN
    IF tags = <<>>
    THEN [c |-> [c EXCEPT !.pc = "done", !.wait = "none", !.req = 0,
                          !.res = TagLoopResult(c)],
          log |-> log]
    ELSE LET pg == TagSearch(tags[1], Len(log) + 1) IN
         [c |-> [c EXCEPT !.pc = "search", !.wait = "pg", !.req = 0, !.tags = tags,
                          !.i = 1, !.noteId = noteId, !.pg = pg],
          log |-> Append(log, PgRequest(p, pg))]

AddTagsToNote(p) ==
    /\ cl[p].op = "idle"
    /\ \E n \in svc.notes, tagNames \in TagInputs :
        LET start == EnterTagLoop(
                        [Idle EXCEPT !.op = "addTagsToNote",
                                     !.args = [note_id |-> n, tags |-> tagNames]],
                        p, n, tagNames, calls)
        IN cl' = [cl EXCEPT ![p] = start.c] /\ calls' = start.log
    /\ UNCHANGED svc

\* Mutant of TagSearched: find-or-create is made atomic among the
\* invocations; while another one is creating the tag, the name is
\* searched again instead of being created.
TagSearchedLocked(p) ==
    /\ cl[p].op \in {"addTagsToNote", "createNote"}
    /\ cl[p].pc = "search"
    /\ Runnable(p)
    /\ LET tagName == cl[p].tags[cl[p].i]
           items == cl[p].pg.allItems
       IN IF cl[p].pg.st = "failed"
          THEN /\ cl' = [cl EXCEPT ![p].pc = "done", ![p].wait = "none",
                                   ![p].res = Thrown(cl[p].pg.err)]
               /\ calls' = calls
          ELSE IF HasExactMatch(items, tagName)
          THEN /\ cl' = [cl EXCEPT ![p].pc = "associate", ![p].wait = "req",
                                   ![p].req = Len(calls) + 1]
               /\ calls' = Append(calls, AssociateCall(p, ExactMatch(items, tagName).id,
                                                       cl[p].noteId))
          ELSE IF \E q \in Procs \ {p} :
                    /\ cl[q].pc = "create"
                    /\ ToLowerCase(cl[q].tags[cl[q].i]) = ToLowerCase(tagName)
          THEN LET pg == TagSearch(tagName, Len(calls) + 1) IN
               /\ cl' = [cl EXCEPT ![p].pg = pg]
               /\ calls' = Append(calls, PgRequest(p, pg))
          ELSE /\ cl' = [cl EXCEPT ![p].pc = "create", ![p].wait = "req",
                                   ![p].req = Len(calls) + 1]
               /\ calls' = Append(calls, CreateTagCall(p, tagName))
    /\ UNCHANGED svc

\* findOrCreateTag after its search: the exact match's id is used, or the
\* tag is created.
TagSearched(p) ==
    /\ cl[p].op \in {"addTagsToNote", "createNote"}
    /\ cl[p].pc = "search"
    /\ Runnable(p)
    /\ LET tagName == cl[p].tags[cl[p].i]
           items == cl[p].pg.allItems
       IN IF cl[p].pg.st = "failed"
          THEN /\ cl' = [cl EXCEPT ![p].pc = "done", ![p].wait = "none",
                                   ![p].res = Thrown(cl[p].pg.err)]
               /\ calls' = calls
          ELSE IF HasExactMatch(items, tagName)
          THEN /\ cl' = [cl EXCEPT ![p].pc = "associate", ![p].wait = "req",
                                   ![p].req = Len(calls) + 1]
               /\ calls' = Append(calls, AssociateCall(p, ExactMatch(items, tagName).id,
                                                       cl[p].noteId))
          ELSE /\ cl' = [cl EXCEPT ![p].pc = "create", ![p].wait = "req",
                                   ![p].req = Len(calls) + 1]
               /\ calls' = Append(calls, CreateTagCall(p, tagName))
    /\ UNCHANGED svc

NullIdMessage == <<"TypeError: Cannot read properties of null (reading 'id')">>

\* The service's answer to POST /tags: the tag is created under a fresh id
\* and then associated.
TagCreated(p) ==
    /\ cl[p].op \in {"addTagsToNote", "createNote"}
    /\ cl[p].pc = "create"
    /\ ~Busy
    /\ LET newId == Len(svc.tags) + 1
           title == calls[cl[p].req].body.title
       IN \E out \in Outcomes({[id |-> newId]}) :
            LET r == Request(out)
                answered == [calls EXCEPT ![cl[p].req].out = out]
            IN
            /\ svc' = IF out.k = "json"
                      THEN [svc EXCEPT !.tags = Append(@, [id |-> newId, title |-> title])]
                      ELSE svc
            /\ IF r.ok /\ r.val # Null
               THEN /\ cl' = [cl EXCEPT ![p].pc = "associate",
                                        ![p].req = Len(calls) + 1]
                    /\ calls' = Append(answered, AssociateCall(p, r.val.id, cl[p].noteId))
               ELSE /\ cl' = [cl EXCEPT ![p].pc = "done", ![p].wait = "none",
                                        ![p].req = 0,
                                        ![p].res = IF r.ok THEN Thrown(NullIdMessage)
                                                   ELSE Thrown(r.err)]
                    /\ calls' = answered

\* Mutant of TagAssociated: a failed association is compensated by deleting
\* the note.
TagAssociatedRollback(p) ==
    /\ cl[p].op \in {"addTagsToNote", "createNote"}
    /\ cl[p].pc = "associate"
    /\ ~Busy
    /\ \E out \in Outcomes({}) :
        LET r == Request(out)
            c == calls[cl[p].req]
            answered == [calls EXCEPT ![cl[p].req].out = out]
        IN
        /\ svc' = IF r.ok
                  THEN [svc EXCEPT !.assoc = @ \cup {<<c.endpoint.ids[1], c.body.id>>}]
                  ELSE svc
        /\ IF ~r.ok
           THEN /\ cl' = [cl EXCEPT ![p].pc = "done", ![p].wait = "none", ![p].req = 0,
                                    ![p].res = Thrown(r.err)]
                /\ calls' = Append(answered,
                                   Call(p, "DELETE", NoteEndpoint(cl[p].noteId), NoBody))
           ELSE IF cl[p].i < Len(cl[p].tags)
           THEN LET pg == TagSearch(cl[p].tags[cl[p].i + 1], Len(calls) + 1) IN
                /\ cl' = [cl EXCEPT ![p].pc = "search", ![p].wait = "pg", ![p].req = 0,
                                    ![p].i = @ + 1, ![p].pg = pg]
                /\ calls' = Append(answered, PgRequest(p, pg))
           ELSE /\ cl' = [cl EXCEPT ![p].pc = "done", ![p].wait = "none", ![p].req = 0,
                                    ![p].res = TagLoopResult(cl[p])]
                /\ calls' = answered

\* The service's answer to POST /tags/:id/notes: the next name is searched,
\* or the loop is over.
TagAssociated(p) ==
    /\ cl[p].op \in {"addTagsToNote", "createNote"}
    /\ cl[p].pc = "associate"
    /\ ~Busy
    /\ \E out \in Outcomes({}) :
        LET r == Request(out)
            c == calls[cl[p].req]
            answered == [calls EXCEPT ![cl[p].req].out = out]
        IN
        /\ svc' = IF r.ok
                  THEN [svc EXCEPT !.assoc = @ \cup {<<c.endpoint.ids[1], c.body.id>>}]
                  ELSE svc
        /\ IF ~r.ok
           THEN /\ cl' = [cl EXCEPT ![p].pc = "done", ![p].wait = "none", ![p].req = 0,
                                    ![p].res = Thrown(r.err)]
                /\ calls' = answered
           ELSE IF cl[p].i < Len(cl[p].tags)
           THEN LET pg == TagSearch(cl[p].tags[cl[p].i + 1], Len(calls) + 1) IN
                /\ cl' = [cl EXCEPT ![p].pc = "search", ![p].wait = "pg", ![p].req = 0,
                                    ![p].i = @ + 1, ![p].pg = pg]
                /\ calls' = Append(answered, PgRequest(p, pg))
           ELSE /\ cl' = [cl EXCEPT ![p].pc = "done", ![p].wait = "none", ![p].req = 0,
                                    ![p].res = TagLoopResult(cl[p])]
                /\ calls' = answered

----------------------------------------------------------------------------
(* TagsApi.removeTagsFromNote *)

DissociateCall(p, tagId, noteId) ==
    Call(p, "DELETE", Endpoint(<<"tags", "notes">>, <<tagId, noteId>>, <<>>), NoBody)

\* The loop of removeTagsFromNote from name number i on, up to its next
\* await: the name is searched, or the loop is over.
RemoveNext(c, p, i, log) ==
    IF i > Len(c.tags)
    THEN [c |-> [c EXCEPT !.pc = "done", !.wait = "none", !.req = 0,
                          !.res = Returned(Undefined)],
          log |-> log]
    ELSE LET pg == TagSearch(c.tags[i], Len(log) + 1) IN
         [c |-> [c EXCEPT !.pc = "lookup", !.wait = "pg", !.req = 0, !.i = i, !.pg = pg],
          log |-> Append(log, PgRequest(p, pg))]

RemoveTagsFromNote(p) ==
    /\ cl[p].op = "idle"
    /\ \E n \in svc.notes, tagNames \in TagInputs :
        LET start == RemoveNext(
                        [Idle EXCEPT !.op = "removeTagsFromNote",
                                     !.args = [note_id |-> n, tags |-> tagNames],
                                     !.tags = ParseTagNames(tagNames),
                                     !.noteId = n],
                        p, 1, calls)
        IN cl' = [cl EXCEPT ![p] = start.c] /\ calls' = start.log
    /\ UNCHANGED svc

\* The search of a name has settled: the exact match is dissociated, a
\* name without one is passed over, a failed search is thrown on.
TagLookedUp(p) ==
    /\ cl[p].op = "removeTagsFromNote"
    /\ cl[p].pc = "lookup"
    /\ Runnable(p)
    /\ LET tagName == cl[p].tags[cl[p].i]
           items == cl[p].pg.allItems
       IN IF cl[p].pg.st = "failed"
          THEN /\ cl' = [cl EXCEPT ![p].pc = "done", ![p].wait = "none",
                                   ![p].res = Thrown(cl[p].pg.err)]
               /\ calls' = calls
          ELSE IF HasExactMatch(items, tagName)
          THEN /\ cl' = [cl EXCEPT ![p].pc = "dissociate", ![p].wait = "req",
                                   ![p].req = Len(calls) + 1]
               /\ calls' = Append(calls, DissociateCall(p, ExactMatch(items, tagName).id,
                                                        cl[p].noteId))
          ELSE LET next == RemoveNext(cl[p], p, cl[p].i + 1, calls) IN
               cl' = [cl EXCEPT ![p] = next.c] /\ calls' = next.log
    /\ UNCHANGED svc

\* The service's answer to DELETE /tags/:id/notes/:noteId; the catch block
\* around the request is empty, so the loop goes on whatever the answer.
TagDissociated(p) ==
    /\ cl[p].op = "removeTagsFromNote"
    /\ cl[p].pc = "dissociate"
    /\ ~Busy
    /\ \E out \in Outcomes({}) :
        LET r == Request(out)
            c == calls[cl[p].req]
            next == RemoveNext(cl[p], p, cl[p].i + 1,
                               [calls EXCEPT ![cl[p].req].out = out])
        IN
        /\ svc' = IF r.ok
                  THEN [svc EXCEPT !.assoc = @ \ {<<c.endpoint.ids[1], c.endpoint.ids[2]>>}]
                  ELSE svc
        /\ cl' = [cl EXCEPT ![p] = next.c]
        /\ calls' = next.log

----------------------------------------------------------------------------
(* TagsApi.renameTag, renameTagByName, getTagNotes, getNotesByTagName *)

\* Mutant of TagNotFoundMessage: the error does not tell what was missing.
TagNotFoundGeneric(name) == <<"Failed to connect to Joplin: ", name>>

TagNotFoundMessage(name) == <<"Tag not found: ", name>>

RenameTagCall(p, tagId, newName) ==
    Call(p, "PUT", Endpoint(<<"tags">>, <<tagId>>, <<>>), [title |-> newName])

GetTagNotesEndpoint(tagId, fields, orderBy, orderDir) ==
    LET e0 == Param(Endpoint(<<"tags", "notes">>, <<tagId>>, <<>>), "fields",
                    IF fields.given THEN fields.v ELSE DefaultNoteFields)
        e1 == IF orderBy.given THEN Param(e0, "order_by", orderBy.v) ELSE e0
    IN IF orderDir.given THEN Param(e1, "order_dir", orderDir.v) ELSE e1

NewNames == {<<"u">>, <<"W", "u">>}

\* Both operations up to their first await: the name, taken as a whole, is
\* searched among the tags.
FindTagByName(p, op, args) ==
    LET pg == TagSearch(args.name, Len(calls) + 1) IN
    /\ cl' = [cl EXCEPT ![p] = [Idle EXCEPT !.op = op, !.pc = "find", !.wait = "pg",
                                            !.args = args, !.pg = pg]]
    /\ calls' = Append(calls, PgRequest(p, pg))
    /\ UNCHANGED svc

RenameTagByName(p) ==
    /\ cl[p].op = "idle"
    /\ \E oldName \in TagInputs, newName \in NewNames :
        FindTagByName(p, "renameTagByName", [name |-> oldName, newName |-> newName])

GetNotesByTagName(p) ==
    /\ cl[p].op = "idle"
    /\ \E tagName \in TagInputs, limit \in {NoArg, Arg(1)} :
        FindTagByName(p, "getNotesByTagName", [name |-> tagName, limit |-> limit])

\* The search has settled: without an exact match the operation throws
\* 'Tag not found'; with one, the tag is renamed or its notes are listed.
TagFound(p) ==
    /\ cl[p].op \in {"renameTagByName", "getNotesByTagName"}
    /\ cl[p].pc = "find"
    /\ Runnable(p)
    /\ LET name == cl[p].args.name
           tags == cl[p].pg.allItems
       IN IF cl[p].pg.st = "failed"
          THEN /\ cl' = [cl EXCEPT ![p].pc = "done", ![p].wait = "none",
                                   ![p].res = Thrown(cl[p].pg.err)]
               /\ calls' = calls
          ELSE IF ~HasExactMatch(tags, name)
          THEN /\ cl' = [cl EXCEPT ![p].pc = "done", ![p].wait = "none",
                                   ![p].res = Thrown(TagNotFoundMessage(name))]
               /\ calls' = calls
          ELSE IF cl[p].op = "renameTagByName"
          THEN /\ cl' = [cl EXCEPT ![p].pc = "rename", ![p].wait = "req",
                                   ![p].req = Len(calls) + 1]
               /\ calls' = Append(calls, RenameTagCall(p, ExactMatch(tags, name).id,
                                                       cl[p].args.newName))
          ELSE LET pg == PgStart(GetTagNotesEndpoint(ExactMatch(tags, name).id,
                                                     NoArg, NoArg, NoArg),
                                 cl[p].args.limit, Len(calls) + 1)
               IN /\ cl' = [cl EXCEPT ![p].pc = "notes", ![p].wait = "pg", ![p].pg = pg]
                  /\ calls' = Append(calls, PgRequest(p, pg))
    /\ UNCHANGED svc

\* The service's answer to PUT /tags/:id
TagRenamed(p) ==
    /\ cl[p].op = "renameTagByName"
    /\ cl[p].pc = "rename"
    /\ ~Busy
    /\ LET c == calls[cl[p].req]
           tagId == c.endpoint.ids[1]
       IN \E out \in Outcomes({[id |-> tagId, title |-> c.body.title]}) :
            LET r == Request(out) IN
            /\ calls' = [calls EXCEPT ![cl[p].req].out = out]
            /\ svc' = IF out.k = "json"
                      THEN [svc EXCEPT !.tags =
                                [k \in 1..Len(@) |->
                                    IF @[k].id = tagId
                                    THEN [id |-> tagId, title |-> c.body.title]
                                    ELSE @[k]]]
                      ELSE svc
            /\ cl' = [cl EXCEPT ![p].pc = "done", ![p].wait = "none", ![p].req = 0,
                                ![p].res = IF r.ok THEN Returned(r.val) ELSE Thrown(r.err)]

\* getTagNotes has settled
TagNotesReturn(p) ==
    /\ cl[p].op = "getNotesByTagName"
    /\ cl[p].pc = "notes"
    /\ Runnable(p)
    /\ cl' = [cl EXCEPT ![p].pc = "done", ![p].wait = "none",
                         ![p].res = PgResult(cl[p].pg)]
    /\ UNCHANGED <<calls, svc>>

----------------------------------------------------------------------------
(* JoplinApiClient.createNote *)

\* noteData: title and body, and parent_id when a notebook id is given
NoteData(title, body, notebookId) ==
    IF notebookId.given
    THEN [title |-> title, body |-> body, parent_id |-> notebookId.v]
    ELSE [title |-> title, body |-> body]

\* if (tags): given, and not the empty string
Truthy(tags) == tags.given /\ tags.v # <<>>

CreateNote(p) ==
    /\ cl[p].op = "idle"
    /\ svc.notes # NoteIds
    /\ \E tags \in {NoArg} \cup {Arg(t) : t \in TagInputs},
          notebookId \in {NoArg, Arg("nb")} :
        /\ cl' = [cl EXCEPT ![p] =
                    [Idle EXCEPT !.op = "createNote", !.pc = "createNote",
                                 !.wait = "req", !.req = Len(calls) + 1,
                                 !.args = [tags |-> tags, notebookId |-> notebookId]]]
        /\ calls' = Append(calls, Call(p, "POST", Endpoint(<<"notes">>, <<>>, <<>>),
                                      NoteData("Title", <<"a">>, notebookId)))
    /\ UNCHANGED svc

\* The service's answer to POST /notes: the note exists under a fresh id;
\* the tags, when given, are then added with addTagsToNote(note.id, tags).
NoteCreated(p) ==
    /\ cl[p].op = "createNote"
    /\ cl[p].pc = "createNote"
    /\ ~Busy
    /\ LET newId == CHOOSE n \in NoteIds \ svc.notes : \A m \in NoteIds \ svc.notes : n <= m
       IN \E out \in Outcomes({[id |-> newId]}) :
            LET r == Request(out)
                answered == [calls EXCEPT ![cl[p].req].out = out]
                tags == cl[p].args.tags
            IN
            /\ svc' = IF out.k = "json"
                      THEN [svc EXCEPT !.notes = @ \cup {newId},
                                       !.body[newId] = calls[cl[p].req].body.body]
                      ELSE svc
            /\ IF ~r.ok
               THEN /\ cl' = [cl EXCEPT ![p].pc = "done", ![p].wait = "none", ![p].req = 0,
                                        ![p].res = Thrown(r.err)]
                    /\ calls' = answered
               ELSE IF ~Truthy(tags)
               THEN /\ cl' = [cl EXCEPT ![p].pc = "done", ![p].wait = "none", ![p].req = 0,
                                        ![p].res = Returned(r.val)]
                    /\ calls' = answered
               ELSE IF r.val = Null
               THEN /\ cl' = [cl EXCEPT ![p].pc = "done", ![p].wait = "none", ![p].req = 0,
                                        ![p].res = Thrown(NullIdMessage)]
                    /\ calls' = answered
               ELSE LET start == EnterTagLoop(
                                    [cl[p] EXCEPT !.note = [st |-> "ok", req |-> 0,
                                                            val |-> r.val]],
                                    p, r.val.id, tags.v, answered)
                    IN cl' = [cl EXCEPT ![p] = start.c] /\ calls' = start.log

----------------------------------------------------------------------------
(* HttpClient.ping and JoplinApiClient.deleteNote: operations that are one *)
(* call of request                                                         *)

\* What the service may answer to a single request: statuses, error texts
\* and network failures as the tests of request use them, and more.
Statuses == {400, 401, 403, 404, 500, 503}
ErrorTexts == {"", "Not Found", "detail"}
NetMessages == {"Network error", "connect ECONNREFUSED 127.0.0.1:41184"}

RequestOutcomes(values) ==
    {OkJson(v) : v \in values} \cup {OkEmpty}
        \cup {HttpError(s, t) : s \in Statuses, t \in ErrorTexts}
        \cup {NetError(m) : m \in NetMessages}

PingCall(p) == Call(p, "GET", Endpoint(<<"ping">>, <<>>, <<>>), NoBody)

\* Mutant of DeleteNoteEndpoint: the delete is permanent whatever the flag.
DeleteNoteEndpointPermanent(noteId, permanent) ==
    Param(NoteEndpoint(noteId), "permanent", 1)

\* permanent ? `/notes/${noteId}?permanent=1` : `/notes/${noteId}`
DeleteNoteEndpoint(noteId, permanent) ==
    IF permanent THEN Param(NoteEndpoint(noteId), "permanent", 1)
    ELSE NoteEndpoint(noteId)

Ping(p) ==
    /\ cl[p].op = "idle"
    /\ cl' = [cl EXCEPT ![p] = [Idle EXCEPT !.op = "ping", !.pc = "request",
                                            !.wait = "req", !.req = Len(calls) + 1]]
    /\ calls' = Append(calls, PingCall(p))
    /\ UNCHANGED svc

DeleteNote(p) ==
    /\ cl[p].op = "idle"
    /\ \E n \in NoteIds, permanent \in BOOLEAN :
        /\ cl' = [cl EXCEPT ![p] =
                    [Idle EXCEPT !.op = "deleteNote", !.pc = "request", !.wait = "req",
                                 !.req = Len(calls) + 1,
                                 !.args = [note_id |-> n, permanent |-> permanent]]]
        /\ calls' = Append(calls, Call(p, "DELETE", DeleteNoteEndpoint(n, permanent),
                                      NoBody))
    /\ UNCHANGED svc

\* Mutant of RequestDone: a failed request is issued once more.
RequestDoneRetry(p) ==
    /\ cl[p].op \in {"ping", "deleteNote"}
    /\ cl[p].pc = "request"
    /\ ~Busy
    /\ \E out \in RequestOutcomes({"JoplinClipperServer"}) :
        LET r == Request(out)
            answered == [calls EXCEPT ![cl[p].req].out = out]
        IN
        /\ svc' = svc
        /\ IF ~r.ok /\ Len(calls) < 2
           THEN /\ calls' = Append(answered, [calls[cl[p].req] EXCEPT !.out = Pending])
                /\ cl' = [cl EXCEPT ![p].req = Len(calls) + 1]
           ELSE /\ calls' = answered
                /\ cl' = [cl EXCEPT ![p].pc = "done", ![p].wait = "none", ![p].req = 0,
                                    ![p].res = IF r.ok THEN Returned(r.val)
                                               ELSE Thrown(r.err)]

\* The service's answer to the request: the operation returns what request
\* returns or throws what it throws.
RequestDone(p) ==
    /\ cl[p].op \in {"ping", "deleteNote"}
    /\ cl[p].pc = "request"
    /\ ~Busy
    /\ \E out \in RequestOutcomes({"JoplinClipperServer"}) :
        LET r == Request(out) IN
        /\ calls' = [calls EXCEPT ![cl[p].req].out = out]
        /\ svc' = IF cl[p].op = "deleteNote" /\ out.k \in {"json", "empty"}
                  THEN [svc EXCEPT !.notes = @ \ {cl[p].args.note_id}]
                  ELSE svc
        /\ cl' = [cl EXCEPT ![p].pc = "done", ![p].wait = "none", ![p].req = 0,
                            ![p].res = IF r.ok THEN Returned(r.val) ELSE Thrown(r.err)]

----------------------------------------------------------------------------
(* JoplinApiClient.constructor *)

DefaultPort == 41184
MaxPort == 65535

PortChars == {"0", "1", "3", "5", "6", "-", "a"}
PortInputs == SeqsUpTo(PortChars, MaxPortLen)

IsDigit(c) == c \in {"0", "1", "2", "3", "4", "5", "6", "7", "8", "9"}

DigitValue(c) ==
    CASE c = "0" -> 0 [] c = "1" -> 1 [] c = "2" -> 2 [] c = "3" -> 3 [] c = "4" -> 4
      [] c = "5" -> 5 [] c = "6" -> 6 [] c = "7" -> 7 [] c = "8" -> 8 [] c = "9" -> 9

\* The longest prefix of s that is made of digits
RECURSIVE DigitPrefix(_)
DigitPrefix(s) ==
    IF s # <<>> /\ IsDigit(Head(s)) THEN <<Head(s)>> \o DigitPrefix(Tail(s)) ELSE <<>>

RECURSIVE DecimalValue(_)
DecimalValue(ds) ==
    IF ds = <<>> THEN 0
    ELSE 10 * DecimalValue(SubSeq(ds, 1, Len(ds) - 1)) + DigitValue(ds[Len(ds)])

NaN == [nan |-> TRUE]
Num(v) == [nan |-> FALSE, v |-> v]

\* parseInt(s, 10): an optional sign, then the digits up to the first
\* character that is not one; NaN when there is no digit there.
ParseInt(s) ==
    LET neg == s # <<>> /\ Head(s) = "-"
        digits == DigitPrefix(IF neg THEN Tail(s) ELSE s)
    IN IF digits = <<>> THEN NaN
       ELSE Num(IF neg THEN 0 - DecimalValue(digits) ELSE DecimalValue(digits))

\* !isNaN(parsedPort) && parsedPort > 0 && parsedPort <= 65535
ValidPort(parsedPort) == ~parsedPort.nan /\ parsedPort.v > 0 /\ parsedPort.v <= MaxPort

InvalidPortWarning(rawPort) ==
    <<"[Warning] Invalid JOPLIN_PORT: \"", rawPort,
      "\". Falling back to default port 41184.">>

MissingTokenErrors ==
    << <<"[Error] Could not find Joplin API token">>,
       <<"[Info] Please ensure:">>,
       <<"  1. Joplin desktop app is installed">>,
       <<"  2. Web Clipper is enabled in Settings -> Web Clipper">>,
       <<"[Info] Alternatively, set JOPLIN_TOKEN environment variable">> >>

\* The port of the base URL and the lines written to console.error, for
\* a JOPLIN_PORT that is unset or set to rawPort.v and a token that was
\* found or not (the empty string).
Constructed(rawPort, token) ==
    LET set == rawPort.given /\ rawPort.v # <<>>
        parsedPort == IF set THEN ParseInt(rawPort.v) ELSE NaN
        port == IF set /\ ValidPort(parsedPort) THEN parsedPort.v ELSE DefaultPort
        warned == IF set /\ ~ValidPort(parsedPort)
                  THEN <<InvalidPortWarning(rawPort.v)>> ELSE <<>>
    IN [baseUrl |-> <<"http://localhost:", port>>,
        token |-> token,
        errors |-> warned \o (IF token = "" THEN MissingTokenErrors ELSE <<>>)]

NewClient(p) ==
    /\ cl[p].op = "idle"
    /\ \E rawPort \in {NoArg} \cup {Arg(s) : s \in PortInputs}, token \in {"", "test-token"} :
        cl' = [cl EXCEPT ![p] =
                [Idle EXCEPT !.op = "constructor", !.pc = "done",
                             !.args = [JOPLIN_PORT |-> rawPort],
                             !.res = Returned(Constructed(rawPort, token))]]
    /\ UNCHANGED <<calls, svc>>

----------------------------------------------------------------------------
(* The CallTool handler: the argument check, the cases 'delete_note',      *)
(* 'update_notebook' and 'rename_tag', the default case and the catch      *)

\* The requests the handler is given: a tool name, and the arguments
\* object or none.  A string argument is absent, empty or not empty; a tag
\* id is absent or the id of a tag.
ToolRequests ==
    LET strings == {NoArg, Arg(<<>>), Arg(<<"p">>)} IN
    {[name |-> n, arguments |-> Undefined] :
        n \in {"delete_note", "update_notebook", "rename_tag", "no_such_tool"}}
      \cup {[name |-> "no_such_tool", arguments |-> [note_id |-> 1]]}
      \cup {[name |-> "delete_note", arguments |-> [note_id |-> n]] : n \in NoteIds}
      \cup {[name |-> "update_notebook",
             arguments |-> [notebook_id |-> "nb", title |-> t, parent_id |-> q]] :
                t \in strings, q \in strings}
      \cup {[name |-> "rename_tag",
             arguments |-> [tag_id |-> i, current_name |-> c, new_name |-> <<"u">>]] :
                i \in {NoArg, Arg(1)}, c \in {NoArg, Arg(<<>>), Arg(<<"w">>)}}

\* if (args.title) updates.title = ...; if (args.parent_id) updates.parent_id = ...
NotebookUpdates(args) ==
    [f \in {g \in {"title", "parent_id"} : Truthy(args[g])} |-> args[f].v]

UpdateNotebookCall(p, notebookId, updates) ==
    Call(p, "PUT", Endpoint(<<"folders">>, <<notebookId>>, <<>>), updates)

\* The handler up to its first await, or to its end when it awaits nothing.
CallTool(p) ==
    /\ cl[p].op = "idle"
    /\ \E rq \in ToolRequests :
        LET args == rq.arguments
            start == [Idle EXCEPT !.op = rq.name, !.args = [tool |-> rq.name]]
            request == [start EXCEPT !.pc = "request", !.wait = "req",
                                     !.req = Len(calls) + 1]
        IN
        IF args = Undefined
        THEN /\ cl' = [cl EXCEPT ![p] =
                        [start EXCEPT !.pc = "returned",
                                      !.res = Thrown(<<"Missing arguments">>)]]
             /\ calls' = calls
             /\ UNCHANGED svc
        ELSE IF rq.name = "delete_note"
        THEN /\ cl' = [cl EXCEPT ![p] =
                        [request EXCEPT !.args = [tool |-> rq.name,
                                                  note_id |-> args.note_id]]]
             /\ calls' = Append(calls, Call(p, "DELETE",
                                    DeleteNoteEndpoint(args.note_id, FALSE), NoBody))
             /\ UNCHANGED svc
        ELSE IF rq.name = "update_notebook"
        THEN /\ cl' = [cl EXCEPT ![p] =
                        [request EXCEPT !.args = [tool |-> rq.name,
                                                  title |-> args.title,
                                                  parent_id |-> args.parent_id]]]
             /\ calls' = Append(calls, UpdateNotebookCall(p, args.notebook_id,
                                                          NotebookUpdates(args)))
             /\ UNCHANGED svc
        ELSE IF rq.name = "rename_tag" /\ args.tag_id.given
        THEN /\ cl' = [cl EXCEPT ![p] =
                        [request EXCEPT !.args = [tool |-> rq.name,
                                                  new_name |-> args.new_name]]]
             /\ calls' = Append(calls, RenameTagCall(p, args.tag_id.v, args.new_name))
             /\ UNCHANGED svc
        ELSE IF rq.name = "rename_tag" /\ Truthy(args.current_name)
        THEN FindTagByName(p, "renameTagByName",
                           [tool |-> rq.name, name |-> args.current_name.v,
                            newName |-> args.new_name])
        ELSE /\ cl' = [cl EXCEPT ![p] =
                        [start EXCEPT
                            !.pc = "returned",
                            !.res = Returned(ToolError(
                                IF rq.name = "rename_tag"
                                THEN <<"Must provide either tag_id or current_name">>
                                ELSE <<"Unknown tool: ", rq.name>>))]]
             /\ calls' = calls
             /\ UNCHANGED svc

\* The service's answer to the one request of a case: the case returns its
\* text, or the catch block returns the error.
ToolDone(p) ==
    /\ cl[p].op \in {"delete_note", "update_notebook", "rename_tag"}
    /\ cl[p].pc = "request"
    /\ ~Busy
    /\ LET c == calls[cl[p].req]
           id == c.endpoint.ids[1]
           values == CASE cl[p].op = "delete_note" -> {}
                       [] cl[p].op = "update_notebook" ->
                            {[id |-> id,
                              title |-> IF "title" \in DOMAIN c.body
                                        THEN c.body.title ELSE <<"n">>]}
                       [] cl[p].op = "rename_tag" -> {[id |-> id, title |-> c.body.title]}
       IN \E out \in Outcomes(values) :
            LET r == Request(out)
                text == CASE cl[p].op = "delete_note" -> <<"Moved note to trash: ", id>>
                          [] cl[p].op = "update_notebook" ->
                                \* `result.title` read from null
                                IF r.val = Null
                                THEN <<"Cannot read properties of null (reading 'title')">>
                                ELSE <<"Updated notebook: ", r.val.title, " (ID: ",
                                       r.val.id, ")">>
                          [] cl[p].op = "rename_tag" ->
                                <<"Renamed tag to: ", cl[p].args.new_name>>
            IN
            /\ calls' = [calls EXCEPT ![cl[p].req].out = out]
            /\ svc' = CASE cl[p].op = "delete_note" /\ r.ok ->
                            [svc EXCEPT !.notes = @ \ {id}]
                        [] cl[p].op = "rename_tag" /\ out.k = "json" ->
                            [svc EXCEPT !.tags =
                                [k \in 1..Len(@) |->
                                    IF @[k].id = id
                                    THEN [id |-> id, title |-> c.body.title]
                                    ELSE @[k]]]
                        [] OTHER -> svc
            /\ cl' = [cl EXCEPT
                        ![p].pc = "returned", ![p].wait = "none", ![p].req = 0,
                        ![p].res =
                            IF ~r.ok THEN Caught(Thrown(r.err))
                            ELSE IF cl[p].op = "update_notebook" /\ r.val = Null
                            THEN Caught(Thrown(text))
                            ELSE Returned(ToolResult(text))]

\* renameTagByName has settled: the case 'rename_tag' returns its text, or
\* the catch block returns the error.
ToolReturn(p) ==
    /\ cl[p].op = "renameTagByName"
    /\ cl[p].pc = "done"
    /\ "tool" \in DOMAIN cl[p].args
    /\ cl' = [cl EXCEPT
                ![p].pc = "returned",
                ![p].res = IF cl[p].res.st = "error" THEN Caught(cl[p].res)
                           ELSE Returned(ToolResult(
                                    <<"Renamed tag to: ", cl[p].args.newName>>))]
    /\ UNCHANGED <<calls, svc>>

----------------------------------------------------------------------------
(* The service's data *)

\* notes: the notes that exist; body[n]: the body of note n; tags: the tags
\* in creation order, each an id and a title; assoc: the (tag id, note id)
\* associations; resources: the resources that exist; refs[r]: the notes
\* that embed r.
SvcInit ==
    [notes |-> {1}, body |-> [n \in NoteIds |-> <<>>],
     tags |-> <<>>, assoc |-> {},
     resources |-> ResourceIds, refs |-> [r \in ResourceIds |-> {}]]

----------------------------------------------------------------------------
(* Specification of the pagination aggregator under a list operation *)

InitIdle ==
    /\ cl = [p \in Procs |-> Idle]
    /\ calls = <<>>
    /\ svc = SvcInit

NextPage == ListTags(1) \/ PgRecv(1) \/ ListTagsReturn(1)

SpecPage == InitIdle /\ [][NextPage]_vars

\* Every request is answered in the end and every settled await is resumed
\* (the event loop runs the continuation): the list operation makes
\* progress as long as a step of it is possible.
SpecPageFair == SpecPage /\ WF_vars(NextPage)

(* Specification of safe resource deletion *)

InitResource ==
    /\ cl = [p \in Procs |-> Idle]
    /\ calls = <<>>
    /\ \E refs \in [ResourceIds -> SUBSET NoteIds] : svc = [SvcInit EXCEPT !.refs = refs]

NextResource ==
    DeleteResourceTool(1) \/ PgRecv(1) \/ DeleteResourceChecked(1) \/ DeleteResourceDone(1)

SpecResource == InitResource /\ [][NextResource]_vars

(* Specification of the read-modify-write note operations *)

OneTag == <<[id |-> 1, title |-> <<"w">>]>>

InitNotes ==
    /\ cl = [p \in Procs |-> Idle]
    /\ calls = <<>>
    /\ \E b \in Bodies :
        svc = [SvcInit EXCEPT !.body[1] = b, !.tags = OneTag, !.assoc = {<<1, 1>>}]

NextNotes ==
    \/ AppendToNote(1) \/ PrependToNote(1) \/ GetNote(1) \/ GetNoteReturn(1)
    \/ NoteRecv(1) \/ PgRecv(1) \/ NoteRead(1) \/ NoteWritten(1)

SpecNotes == InitNotes /\ [][NextNotes]_vars

(* Specification of the read-modify-write note operations next to another *)
(* writer of the same note                                                  *)

\* The writer that is not this program: its requests are logged under this
\* number, which is no process of the program.
ExternalWriter == 0

\* Another client of the service replaces the body of the note, once,
\* after appendToNote or prependToNote has read it and before the service
\* has taken the write.
ExternalWrite ==
    /\ ~Busy
    /\ \A i \in 1..Len(calls) : calls[i].proc # ExternalWriter
    /\ \E p \in Procs :
        /\ cl[p].op \in {"appendToNote", "prependToNote"}
        /\ cl[p].note.st = "ok"
        /\ cl[p].pc \in {"getNote", "write"}
        /\ \E X \in Bodies \ {svc.body[cl[p].args.note_id]} :
            /\ svc' = [svc EXCEPT !.body[cl[p].args.note_id] = X]
            /\ calls' = Append(calls,
                    [proc |-> ExternalWriter, method |-> "PUT",
                     endpoint |-> NoteEndpoint(cl[p].args.note_id),
                     body |-> [body |-> X],
                     out |-> OkJson([t |-> "note", id |-> cl[p].args.note_id])])
    /\ UNCHANGED cl

NextRace ==
    \/ AppendToNote(1) \/ PrependToNote(1)
    \/ NoteRecv(1) \/ PgRecv(1) \/ NoteRead(1) \/ NoteWritten(1)
    \/ ExternalWrite

SpecRace == InitNotes /\ [][NextRace]_vars

(* Specification of safe resource deletion next to another writer *)

\* Another client of the service makes a note reference the resource, once,
\* after the lookup of delete_resource has returned no notes and before
\* the service has taken the delete.
ExternalReference ==
    /\ \A i \in 1..Len(calls) : calls[i].proc # ExternalWriter
    /\ \E p \in Procs :
        /\ cl[p].op = "delete_resource"
        /\ cl[p].pc \in {"lookup", "delete"}
        /\ cl[p].pg.st = "done"
        /\ cl[p].pg.allItems = <<>>
        /\ \E n \in NoteIds \ svc.refs[cl[p].args.resource_id] :
            /\ svc' = [svc EXCEPT !.refs[cl[p].args.resource_id] = @ \cup {n}]
            /\ calls' = Append(calls,
                    [proc |-> ExternalWriter, method |-> "PUT",
                     endpoint |-> NoteEndpoint(n),
                     body |-> [body |-> <<"resource", cl[p].args.resource_id>>],
                     out |-> OkJson([t |-> "note", id |-> n])])
    /\ UNCHANGED cl

NextResourceRace ==
    \/ DeleteResourceTool(1) \/ PgRecv(1) \/ DeleteResourceChecked(1)
    \/ DeleteResourceDone(1) \/ ExternalReference

SpecResourceRace == InitResource /\ [][NextResourceRace]_vars

(* Specification of the tag operations *)

\* The tags the service starts with: no tag at all; an upper-case title
\* and a title that holds it as a prefix; or these and a third tag whose
\* title differs from the first by its case only.
TagW == [id |-> 1, title |-> <<"W">>]
TagWu == [id |-> 2, title |-> <<"w", "u">>]
TagLw == [id |-> 3, title |-> <<"w">>]
InitialTags == {<<>>, <<TagW, TagWu>>, <<TagW, TagWu, TagLw>>}

TagIdsOf(tg) == {tg[i].id : i \in 1..Len(tg)}

\* Both notes exist; no tag is on a note, one is, or every tag is on every
\* note.
InitTags ==
    /\ cl = [p \in Procs |-> Idle]
    /\ calls = <<>>
    /\ \E tg \in InitialTags :
        \E as \in {{}, TagIdsOf(tg) \X {2}, TagIdsOf(tg) \X NoteIds} :
            svc = [SvcInit EXCEPT !.notes = NoteIds, !.tags = tg, !.assoc = as]

NextTags ==
    \/ AddTagsToNote(1) \/ RemoveTagsFromNote(1)
    \/ PgRecv(1) \/ TagSearched(1) \/ TagCreated(1) \/ TagAssociated(1)
    \/ TagLookedUp(1) \/ TagDissociated(1)
    \/ RenameTagByName(1) \/ GetNotesByTagName(1)
    \/ TagFound(1) \/ TagRenamed(1) \/ TagNotesReturn(1)

SpecTags == InitTags /\ [][NextTags]_vars

(* Specification of note creation with tags *)

NextCreate ==
    \/ CreateNote(1) \/ NoteCreated(1)
    \/ PgRecv(1) \/ TagSearched(1) \/ TagCreated(1) \/ TagAssociated(1)

InitCreate ==
    /\ cl = [p \in Procs |-> Idle]
    /\ calls = <<>>
    /\ \E tg \in InitialTags : svc = [SvcInit EXCEPT !.tags = tg]

SpecCreate == InitCreate /\ [][NextCreate]_vars

(* Specification of the operations that are one call of request *)

NextRequest == Ping(1) \/ DeleteNote(1) \/ RequestDone(1)

SpecRequest == InitIdle /\ [][NextRequest]_vars

(* Specification of the client's construction *)

NextConstruct == NewClient(1)

SpecConstruct == InitIdle /\ [][NextConstruct]_vars

(* Specification of the CallTool handler, and of deleteNote called with   *)
(* either value of its permanent flag                                      *)

NextTool ==
    \/ CallTool(1) \/ ToolDone(1) \/ ToolReturn(1)
    \/ PgRecv(1) \/ TagFound(1) \/ TagRenamed(1)
    \/ DeleteNote(1) \/ RequestDone(1)

SpecTool == InitTags /\ [][NextTool]_vars

(* Specification of a second invocation of addTagsToNote or                *)
(* removeTagsFromNote with the arguments of the first, against a service   *)
(* whose searches are consistent                                           *)

\* A consistent answer to a tag search: a page that ends the collection,
\* the tags in the order of their ids, no tag left out whose title is the
\* query up to case.
ConsistentAnswer(c) ==
    /\ c.out.k = "json"
    /\ LET items == PageItems(c.out.v)
           query == DecodeURIComponent(ParamOf(c.endpoint, "query"))
       IN /\ \A i, j \in 1..Len(items) : i < j => items[i].id < items[j].id
          /\ \A k \in 1..Len(svc.tags) :
                ToLowerCase(svc.tags[k].title) = ToLowerCase(query) =>
                    \E i \in 1..Len(items) : items[i] = svc.tags[k]

PgRecvConsistent(p) == PgRecv(p) /\ ConsistentAnswer(calls'[cl[p].pg.req])

\* The caller invokes the operation again, with the same arguments, once
\* the first invocation has returned.
Reinvoke(q) ==
    /\ cl[q].op = "idle"
    /\ \E p \in Procs \ {q} :
        /\ cl[p].pc = "done"
        /\ cl[p].res.st = "ok"
        /\ LET c == [Idle EXCEPT !.op = cl[p].op, !.args = cl[p].args]
               n == cl[p].args.note_id
               tagNames == cl[p].args.tags
               start == IF cl[p].op = "addTagsToNote"
                        THEN EnterTagLoop(c, q, n, tagNames, calls)
                        ELSE RemoveNext([c EXCEPT !.tags = ParseTagNames(tagNames),
                                                  !.noteId = n],
                                        q, 1, calls)
           IN cl' = [cl EXCEPT ![q] = start.c] /\ calls' = start.log
    /\ UNCHANGED svc

\* The tag lists of the first invocation: one name, two names, a name
\* twice, a name that holds another as a prefix.
RetryInputs ==
    {<<"w">>, <<"u">>, <<"w", "u">>, <<"w", ",", "u">>, <<"w", ",", "w">>}

NextRetry ==
    \/ AddTagsToNote(1) /\ cl'[1].args.tags \in RetryInputs
    \/ RemoveTagsFromNote(1) /\ cl'[1].args.tags \in RetryInputs
    \/ Reinvoke(2)
    \/ \E p \in Procs :
        \/ PgRecvConsistent(p) \/ TagSearched(p) \/ TagCreated(p) \/ TagAssociated(p)
        \/ TagLookedUp(p) \/ TagDissociated(p)

SpecRetry == InitTags /\ [][NextRetry]_vars

(* Specification of two invocations of addTagsToNote side by side, each    *)
(* for one name, against a service whose searches are consistent           *)

NextTagRace ==
    \E p \in Procs :
        \/ /\ AddTagsToNote(p)
           /\ cl'[p].args.note_id = 1
           /\ cl'[p].args.tags \in {<<"w">>, <<"u">>}
        \/ PgRecvConsistent(p) \/ TagSearched(p) \/ TagCreated(p) \/ TagAssociated(p)

SpecTagRace == InitTags /\ [][NextTagRace]_vars

----------------------------------------------------------------------------
(* Properties of the pagination aggregator (SpecPage) *)

IsPage(out) == out.k = "json" /\ out.v.t = "page"
IsPageWith(out, hm) == IsPage(out) /\ out.v.items.arr /\ out.v.has_more = hm
IsFailure(out) == out.k \in {"http", "net"}

\* The responses of a run that follows the pagination protocol: pages
\* 1..N-1 report has_more = true and page N reports has_more = false.
ProtocolRun(log) ==
    /\ log # <<>>
    /\ \A i \in 1..Len(log) :
        IsPageWith(log[i].out, IF i < Len(log) THEN "true" ELSE "false")

ItemsOfRun(log) == Concat([i \in 1..Len(log) |-> log[i].out.v.items.v])

\* C1: for a service that answers page requests 1..N by the protocol, the
\* aggregator returns exactly the concatenation of the pages' items in page
\* order; the requests it issued are exactly N, request i asks for page i,
\* every request carries the same limit, and no request follows a page
\* that did not report has_more = true.
C1_PaginationCompleteness ==
    \A p \in Procs : cl[p].op = "listTags" =>
        LET log == CallsOf(p) IN
        /\ \A i \in 1..Len(log) :
            /\ log[i].method = "GET"
            /\ ParamOf(log[i].endpoint, "page") = i
            /\ ParamOf(log[i].endpoint, "limit") = ParamOf(log[1].endpoint, "limit")
            /\ i < Len(log) => IsPage(log[i].out) /\ log[i].out.v.has_more = "true"
        /\ ProtocolRun(log) =>
            /\ cl[p].pg.st = "done"
            /\ cl[p].pg.allItems = ItemsOfRun(log)
            /\ cl[p].pc = "done" => cl[p].res = Returned(ItemsOfRun(log))

C1_Witness ==
    /\ cl[1].op = "listTags"
    /\ cl[1].pc = "done"
    /\ Len(CallsOf(1)) = 2
    /\ ProtocolRun(CallsOf(1))
    /\ cl[1].res = Returned(<<"x", "y">>)

\* C2: a null (empty-text) response to any page request, the first or a
\* later one, makes the aggregator raise: it is the last request issued,
\* and the operation ends with the 'Unexpected empty response' error and
\* never with a returned sequence.
C2_NullPageRaises ==
    \A p \in Procs : cl[p].op = "listTags" =>
        LET log == CallsOf(p) IN
        \A i \in 1..Len(log) : log[i].out = OkEmpty =>
            /\ i = Len(log)
            /\ cl[p].pg.st = "failed"
            /\ cl[p].res.st # "ok"
            /\ cl[p].pc = "done" =>
                cl[p].res = Thrown(EmptyResponseMessage(log[i].endpoint))

C2_Witness ==
    /\ cl[1].op = "listTags"
    /\ cl[1].pc = "done"
    /\ Len(CallsOf(1)) = 2
    /\ CallsOf(1)[2].out = OkEmpty
    /\ cl[1].pg.allItems = <<"x">>
    /\ cl[1].res.st = "error"

IsEmptyMore(out) == IsPageWith(out, "true") /\ out.v.items.v = <<>>

\* C3 as stated: a page with no items and has_more = true is a protocol
\* violation that makes the aggregator fail.
C3_EmptyMoreIsError ==
    \A p \in Procs : cl[p].op = "listTags" =>
        \A i \in 1..Len(CallsOf(p)) :
            IsEmptyMore(CallsOf(p)[i].out) => cl[p].pg.st = "failed"

\* C3 amended: a page with no items and has_more = true is not taken as
\* the end of the collection and is not an error either: the next page is
\* requested, and the aggregator fails only if the last response it got
\* is a failed request or a null response.
C3_EmptyMoreContinues ==
    \A p \in Procs : cl[p].op = "listTags" =>
        LET log == CallsOf(p) IN
        \A i \in 1..Len(log) : IsEmptyMore(log[i].out) =>
            /\ i < Len(log)
            /\ ParamOf(log[i + 1].endpoint, "page") = i + 1
            /\ cl[p].pg.st = "failed" =>
                IsFailure(log[Len(log)].out) \/ log[Len(log)].out = OkEmpty
            /\ ProtocolRun(log) /\ cl[p].pc = "done" =>
                cl[p].res = Returned(ItemsOfRun(log))

C3_Witness ==
    /\ cl[1].op = "listTags"
    /\ cl[1].pc = "done"
    /\ Len(CallsOf(1)) = 2
    /\ IsEmptyMore(CallsOf(1)[1].out)
    /\ cl[1].res = Returned(<<"y">>)

----------------------------------------------------------------------------
(* Properties of safe resource deletion (SpecResource) *)

IsDeleteResource(c, r) ==
    c.method = "DELETE" /\ c.endpoint.path = <<"resources">> /\ c.endpoint.ids = <<r>>

DeleteCalls(p) == SelectSeq(CallsOf(p), LAMBDA c : c.method = "DELETE")

\* C4: in one invocation of the delete_resource tool, when the reference
\* lookup returned at least one note no DELETE is ever issued and the
\* result names the count and the referencing notes; when it returned no
\* note, exactly one DELETE of that resource is issued; when the lookup
\* failed, no DELETE is issued and the result is an error.
C4_SafeDelete ==
    \A p \in Procs : cl[p].op = "delete_resource" =>
        LET found == cl[p].pg.allItems
            r == cl[p].args.resource_id
        IN
        /\ cl[p].pg.st = "await" => DeleteCalls(p) = <<>>
        /\ cl[p].pg.st = "failed" =>
            /\ DeleteCalls(p) = <<>>
            /\ cl[p].pc = "done" => cl[p].res.val = ToolError(cl[p].pg.err)
        /\ cl[p].pg.st = "done" /\ Len(found) >= 1 =>
            /\ DeleteCalls(p) = <<>>
            /\ cl[p].pc = "done" =>
                /\ "isError" \notin DOMAIN cl[p].res.val
                /\ cl[p].res.val.text[2] = Len(found)
                /\ cl[p].res.val.text[4] = found
        /\ cl[p].pg.st = "done" /\ Len(found) = 0 /\ cl[p].pc # "lookup" =>
            /\ Len(DeleteCalls(p)) = 1
            /\ IsDeleteResource(DeleteCalls(p)[1], r)

C4_Witness ==
    /\ cl[1].op = "delete_resource"
    /\ cl[1].pc = "done"
    /\ Len(cl[1].pg.allItems) = 1
    /\ cl[1].res.val.text[2] = 1
    /\ svc.resources = ResourceIds

----------------------------------------------------------------------------
(* Properties of appendToNote and prependToNote (SpecNotes) *)

IsRmw(p) == cl[p].op \in {"appendToNote", "prependToNote"}

IsNoteGet(c, n) ==
    /\ c.method = "GET"
    /\ c.endpoint.path = <<"notes">>
    /\ c.endpoint.ids = <<n>>
    /\ c.endpoint.query = << <<"?", "fields", "id,body">> >>

IsNoteTagsGet(c, n) ==
    c.method = "GET" /\ c.endpoint.path = <<"notes", "tags">> /\ c.endpoint.ids = <<n>>

IsNotePut(c, n) ==
    c.method = "PUT" /\ c.endpoint = Endpoint(<<"notes">>, <<n>>, <<>>)

Answered(c) == c.out # Pending

\* C5: when the read returned the note with body A, the body written for
\* content B is A \n\n B by appendToNote and B \n\n A by prependToNote; the
\* write is a PUT to the note whose JSON body has the body field only; it
\* is the last call of the operation, and a write that succeeds leaves the
\* note with exactly that body.
C5_AppendPrependBody ==
    \A p \in Procs : IsRmw(p) =>
        LET log == CallsOf(p)
            n == cl[p].args.note_id
            B == cl[p].args.content
        IN \A i \in 1..Len(log) : log[i].method = "PUT" =>
            /\ i = Len(log)
            /\ log[i].endpoint = Endpoint(<<"notes">>, <<n>>, <<>>)
            /\ log[1].out.k = "json" =>
                LET A == log[1].out.v.body IN
                /\ cl[p].op = "appendToNote" =>
                    log[i].body = [body |-> A \o <<"\n", "\n">> \o B]
                /\ cl[p].op = "prependToNote" =>
                    log[i].body = [body |-> B \o <<"\n", "\n">> \o A]
            /\ cl[p].res.st = "ok" => svc.body[n] = log[i].body.body

C5_Witness ==
    /\ cl[1].op = "appendToNote"
    /\ cl[1].pc = "done"
    /\ cl[1].res.st = "ok"
    /\ cl[1].args.content = <<"b">>
    /\ CallsOf(1)[1].out = OkJson([t |-> "note", id |-> 1, body |-> <<"a">>])
    /\ svc.body[1] = <<"a", "\n", "\n", "b">>

\* C6 as stated: a finished append or prepend has issued exactly two
\* remote calls, one read and one write.
C6_TwoRoundTrips ==
    \A p \in Procs :
        IsRmw(p) /\ cl[p].pc = "done" /\ cl[p].res.st = "ok" => Len(CallsOf(p)) = 2

\* C6 amended: the operation is a read phase followed by one write.  The
\* read phase is one GET of the note asking for id and body only and,
\* issued right after it, one GET per page of the note's tag list (at
\* least one); the write is one PUT, issued only after every request of
\* the read phase has been answered; no other call is issued, and an
\* operation that succeeds has issued the PUT last.
C6_ReadPhaseThenWrite ==
    \A p \in Procs : IsRmw(p) =>
        LET log == CallsOf(p)
            n == cl[p].args.note_id
        IN
        /\ Len(log) >= 2
        /\ IsNoteGet(log[1], n)
        /\ IsNoteTagsGet(log[2], n)
        /\ \A i \in 3..Len(log) :
            \/ IsNoteTagsGet(log[i], n)
            \/ /\ IsNotePut(log[i], n)
               /\ i = Len(log)
               /\ \A j \in 1..(i - 1) : Answered(log[j])
        /\ cl[p].res.st = "ok" =>
            /\ Len(log) >= 3
            /\ IsNotePut(log[Len(log)], n)

C6_Witness ==
    /\ cl[1].op = "prependToNote"
    /\ cl[1].pc = "done"
    /\ cl[1].res.st = "ok"
    /\ Len(CallsOf(1)) = 4
    /\ IsNoteTagsGet(CallsOf(1)[3], 1)
    /\ IsNotePut(CallsOf(1)[4], 1)

----------------------------------------------------------------------------
(* Properties of the tag operations (SpecTags, SpecCreate) *)

IsTagSearch(c) ==
    /\ c.method = "GET"
    /\ c.endpoint.path = <<"search">>
    /\ HasParam(c.endpoint, "type")
    /\ ParamOf(c.endpoint, "type") = "tag"

SearchedName(c) == DecodeURIComponent(ParamOf(c.endpoint, "query"))

IsTagCreate(c) == c.method = "POST" /\ c.endpoint = Endpoint(<<"tags">>, <<>>, <<>>)

IsAssociate(c) ==
    /\ c.method = "POST"
    /\ c.endpoint.path = <<"tags", "notes">>
    /\ Len(c.endpoint.ids) = 1

IsDissociate(c) ==
    /\ c.method = "DELETE"
    /\ c.endpoint.path = <<"tags", "notes">>
    /\ Len(c.endpoint.ids) = 2

SameIgnoringCase(a, b) == ToLowerCase(a) = ToLowerCase(b)

\* The candidates a search call got that carry the name, whatever the case
Found(c) == c.out.k = "json" /\ c.out.v.t = "page"
MatchesIn(c, name) ==
    {i \in 1..Len(c.out.v.items.v) : SameIgnoringCase(c.out.v.items.v[i].title, name)}

\* C7: in addTagsToNote, a search whose result holds a tag with the name
\* as its title, whatever the case, is followed by the association call
\* with that tag's id and by no tag creation; a tag is created only right
\* after a search for that very name whose result holds no such tag.
C7_TagReuse ==
    \A p \in Procs : cl[p].op = "addTagsToNote" =>
        LET log == CallsOf(p) IN
        \A i \in 1..Len(log) :
            /\ IsTagSearch(log[i]) /\ Found(log[i])
                   /\ MatchesIn(log[i], SearchedName(log[i])) # {}
                   /\ i < Len(log) =>
                /\ IsAssociate(log[i + 1])
                /\ \E k \in MatchesIn(log[i], SearchedName(log[i])) :
                    log[i + 1].endpoint.ids = <<log[i].out.v.items.v[k].id>>
                /\ log[i + 1].body = [id |-> cl[p].args.note_id]
            /\ IsTagCreate(log[i]) =>
                /\ i > 1
                /\ IsTagSearch(log[i - 1])
                /\ Found(log[i - 1])
                /\ SearchedName(log[i - 1]) = log[i].body.title
                /\ MatchesIn(log[i - 1], log[i].body.title) = {}

C7_Witness ==
    /\ cl[1].op = "addTagsToNote"
    /\ cl[1].pc = "done"
    /\ cl[1].res.st = "ok"
    /\ cl[1].args.tags = <<"w">>
    /\ Len(CallsOf(1)) = 2
    /\ CallsOf(1)[1].out = OkJson(Page(Arr(<<TagWu, TagW>>), "false"))
    /\ svc.tags = <<TagW, TagWu>>
    /\ <<1, cl[1].args.note_id>> \in svc.assoc

TagTitled(id) == svc.tags[CHOOSE i \in 1..Len(svc.tags) : svc.tags[i].id = id].title

NamedTag(p, id) ==
    \E k \in 1..Len(cl[p].tags) : SameIgnoringCase(TagTitled(id), cl[p].tags[k])

C8_Calls ==
    \A p \in Procs : cl[p].op = "removeTagsFromNote" =>
        LET log == CallsOf(p) IN
        /\ \A i \in 1..Len(log) :
            \/ IsTagSearch(log[i])
            \/ /\ IsDissociate(log[i])
               /\ log[i].endpoint.ids[2] = cl[p].args.note_id
               /\ NamedTag(p, log[i].endpoint.ids[1])
        /\ cl[p].res.st = "error" =>
            /\ log # <<>>
            /\ IsTagSearch(log[Len(log)])
            /\ IsFailure(log[Len(log)].out) \/ log[Len(log)].out = OkEmpty

C8_Step ==
    \A p \in Procs : cl'[p].op = "removeTagsFromNote" =>
        /\ svc'.tags = svc.tags
        /\ svc'.notes = svc.notes
        /\ svc'.assoc \subseteq svc.assoc
        /\ \A a \in svc.assoc \ svc'.assoc :
            a[2] = cl'[p].args.note_id /\ NamedTag(p, a[1])

\* C8: removeTagsFromNote issues only tag searches and DELETEs of the
\* association of the given note with a tag that carries one of the names;
\* it ends in an error only when a search failed, so a name without a tag
\* and a DELETE the service refuses both leave it successful; and no step
\* of it creates or deletes a tag or changes another association.
C8_IdempotentRemoval == [](C8_Calls) /\ [][C8_Step]_vars

C8_Witness ==
    /\ cl[1].op = "removeTagsFromNote"
    /\ cl[1].pc = "done"
    /\ cl[1].res.st = "ok"
    /\ cl[1].args.tags = <<"w", ",", "u">>
    /\ Len(CallsOf(1)) = 3
    /\ CallsOf(1)[1].out = OkJson(Page(Arr(<<TagWu, TagW>>), "false"))
    /\ CallsOf(1)[2].out = HttpError(404, "detail")
    /\ CallsOf(1)[3].out = OkJson(Page(Arr(<<TagWu>>), "false"))
    /\ svc.assoc = {}

\* C9 as stated: a connectivity failure or a server error on the DELETE
\* of an association is not discarded: the operation ends in an error and
\* issues nothing after it.
C9_OtherFailuresPropagate ==
    \A p \in Procs : cl[p].op = "removeTagsFromNote" =>
        LET log == CallsOf(p) IN
        \A i \in 1..Len(log) :
            IsDissociate(log[i])
                /\ log[i].out \in {NetError("ECONNREFUSED"), HttpError(500, "detail")} =>
                    /\ i = Len(log)
                    /\ cl[p].pc = "done"
                    /\ cl[p].res.st = "error"

IsNoteCreate(c) == c.method = "POST" /\ c.endpoint = Endpoint(<<"notes">>, <<>>, <<>>)

Searches(log) == SelectSeq(log, IsTagSearch)

\* C10: createNote first issues the note creation, whose body has no tags
\* field, and nothing else before it is answered.  Then, name by name in
\* list order (the trimmed non-empty pieces of the tags argument), one
\* search, one tag creation when the search has no match, and one
\* association that carries the id the note creation returned and the id
\* of the tag found or created.  Two names that are both created make
\* 1 + 6 calls, and the value returned is the note the creation returned.
C10_CreateNoteOrder ==
    \A p \in Procs : cl[p].op = "createNote" =>
        LET log == CallsOf(p)
            created == IF log[1].out.k = "json" THEN log[1].out.v ELSE Null
        IN
        /\ IsNoteCreate(log[1])
        /\ DOMAIN log[1].body \subseteq {"title", "body", "parent_id"}
        /\ Len(log) > 1 => log[1].out.k = "json"
        /\ \A i \in 2..Len(log) :
            /\ IsTagSearch(log[i]) \/ IsTagCreate(log[i]) \/ IsAssociate(log[i])
            /\ Answered(log[i - 1])
            /\ IsTagSearch(log[i]) => i = 2 \/ IsAssociate(log[i - 1])
            /\ IsTagCreate(log[i]) =>
                /\ IsTagSearch(log[i - 1])
                /\ log[i].body = [title |-> SearchedName(log[i - 1])]
                /\ MatchesIn(log[i - 1], SearchedName(log[i - 1])) = {}
            /\ IsAssociate(log[i]) =>
                /\ log[i].body = [id |-> created.id]
                /\ \/ /\ IsTagCreate(log[i - 1])
                      /\ log[i].endpoint.ids = <<log[i - 1].out.v.id>>
                   \/ /\ IsTagSearch(log[i - 1])
                      /\ \E k \in MatchesIn(log[i - 1], SearchedName(log[i - 1])) :
                          log[i].endpoint.ids = <<log[i - 1].out.v.items.v[k].id>>
        /\ Len(log) > 1 =>
            /\ \A k \in 1..Len(Searches(log)) :
                SearchedName(Searches(log)[k]) = cl[p].tags[k]
            /\ cl[p].tags = ParseTagNames(cl[p].args.tags.v)
            /\ \A k \in 1..Len(cl[p].tags) :
                /\ cl[p].tags[k] # <<>>
                /\ Head(cl[p].tags[k]) # " "
                /\ cl[p].tags[k][Len(cl[p].tags[k])] # " "
                /\ Contains(cl[p].args.tags.v, cl[p].tags[k])
        /\ cl[p].args.tags = Arg(<<" ", "w", ",">>) /\ Len(log) > 1 =>
            cl[p].tags = << <<"w">> >>
        /\ cl[p].res.st = "ok" =>
            /\ cl[p].res.val = created
            /\ Truthy(cl[p].args.tags) => Len(Searches(log)) = Len(cl[p].tags)
            /\ Len(cl[p].tags) = 2 /\ Len(SelectSeq(log, IsTagCreate)) = 2 =>
                Len(log) = 1 + 6

C10_Witness ==
    /\ cl[1].op = "createNote"
    /\ cl[1].pc = "done"
    /\ cl[1].res = Returned([id |-> 2])
    /\ cl[1].args.tags = Arg(<<"w", ",", "u">>)
    /\ Len(CallsOf(1)) = 7
    /\ svc.tags = <<[id |-> 1, title |-> <<"w">>], [id |-> 2, title |-> <<"u">>]>>
    /\ svc.assoc = {<<1, 2>>, <<2, 2>>}

----------------------------------------------------------------------------
(* Properties of failures inside the tag assignment (SpecCreate, SpecTags) *)

\* A call of the tag assignment that makes it fail: a failed request, a
\* null answer to a search page, a null answer to the tag creation.
FailedCall(c) ==
    \/ IsFailure(c.out)
    \/ c.out = OkEmpty /\ (IsTagSearch(c) \/ IsTagCreate(c))

\* The error the operation fails with when call c fails
ErrorOfCall(c) ==
    IF c.out.k = "http"
    THEN ConnectMessage(ApiErrorMessage(c.out.status, c.out.text))
    ELSE IF c.out.k = "net" THEN ConnectMessage(<<c.out.msg>>)
    ELSE IF IsTagSearch(c) THEN EmptyResponseMessage(c.endpoint)
    ELSE NullIdMessage

TagWithId(id) == \E k \in 1..Len(svc.tags) : svc.tags[k].id = id

\* C11: once the note creation has succeeded, a call of the tag assignment
\* that fails is the last call of createNote, which fails with that call's
\* error; the created note is on the service; no call of the operation is
\* a DELETE or a PUT; and every tag created and every association made by
\* the earlier calls is on the service.
C11_NoRollback ==
    \A p \in Procs : cl[p].op = "createNote" =>
        LET log == CallsOf(p) IN
        log[1].out.k = "json" =>
            /\ log[1].out.v.id \in svc.notes
            /\ \A i \in 2..Len(log) :
                /\ log[i].method \in {"GET", "POST"}
                /\ ~IsNoteCreate(log[i])
                /\ FailedCall(log[i]) =>
                    /\ i = Len(log)
                    /\ cl[p].res.st # "ok"
                    /\ cl[p].pc = "done" => cl[p].res = Thrown(ErrorOfCall(log[i]))
                /\ IsTagCreate(log[i]) /\ log[i].out.k = "json" =>
                    TagWithId(log[i].out.v.id)
                /\ IsAssociate(log[i]) /\ log[i].out \in {OkEmpty} =>
                    <<log[i].endpoint.ids[1], log[1].out.v.id>> \in svc.assoc

C11_Witness ==
    /\ cl[1].op = "createNote"
    /\ cl[1].pc = "done"
    /\ cl[1].res.st = "error"
    /\ cl[1].args.tags = Arg(<<"w", ",", "u">>)
    /\ Len(CallsOf(1)) = 5
    /\ CallsOf(1)[3].out = OkJson([id |-> 1])
    /\ CallsOf(1)[5].out = HttpError(500, "detail")
    /\ 2 \in svc.notes
    /\ svc.assoc = {<<1, 2>>}

\* C12: addTagsToNote issues a call only after the call before it was
\* answered; the searches are those of the names in list order; a search
\* is the first call or follows the association of the name before; a tag
\* creation follows the search of its name; an association follows the
\* search or the creation of its name.  A call that fails is the last call
\* and the operation fails with its error, and the tags created and the
\* associations made before it are on the service.
C12_SequentialAbort ==
    \A p \in Procs : cl[p].op = "addTagsToNote" =>
        LET log == CallsOf(p)
            names == ParseTagNames(cl[p].args.tags)
        IN
        /\ Len(Searches(log)) <= Len(names)
        /\ \A k \in 1..Len(Searches(log)) : SearchedName(Searches(log)[k]) = names[k]
        /\ \A i \in 1..Len(log) :
            /\ i > 1 => Answered(log[i - 1]) /\ ~FailedCall(log[i - 1])
            /\ IsTagSearch(log[i]) \/ IsTagCreate(log[i]) \/ IsAssociate(log[i])
            /\ IsTagSearch(log[i]) => i = 1 \/ IsAssociate(log[i - 1])
            /\ IsTagCreate(log[i]) =>
                /\ i > 1
                /\ IsTagSearch(log[i - 1])
                /\ log[i].body.title = SearchedName(log[i - 1])
            /\ IsAssociate(log[i]) =>
                /\ i > 1
                /\ IsTagSearch(log[i - 1]) \/ IsTagCreate(log[i - 1])
            /\ FailedCall(log[i]) =>
                /\ i = Len(log)
                /\ cl[p].res.st # "ok"
                /\ cl[p].pc = "done" => cl[p].res = Thrown(ErrorOfCall(log[i]))
            /\ IsTagCreate(log[i]) /\ log[i].out.k = "json" => TagWithId(log[i].out.v.id)
            /\ IsAssociate(log[i]) /\ log[i].out \in {OkEmpty} =>
                <<log[i].endpoint.ids[1], cl[p].args.note_id>> \in svc.assoc
        /\ cl[p].pc = "done" /\ cl[p].res.st = "ok" =>
            /\ Len(Searches(log)) = Len(names)
            /\ names # <<>> => IsAssociate(log[Len(log)])

C12_Witness ==
    /\ cl[1].op = "addTagsToNote"
    /\ cl[1].pc = "done"
    /\ cl[1].res.st = "error"
    /\ cl[1].args = [note_id |-> 1, tags |-> <<"w", ",", "u">>]
    /\ Len(CallsOf(1)) = 5
    /\ IsTagCreate(CallsOf(1)[2])
    /\ CallsOf(1)[5].out = NetError("ECONNREFUSED")
    /\ svc.tags = <<[id |-> 1, title |-> <<"w">>]>>
    /\ svc.assoc = {<<1, 1>>}

----------------------------------------------------------------------------
(* Properties of the operations that find a tag by its name (SpecTags) *)

IsFindByName(p) == cl[p].op \in {"renameTagByName", "getNotesByTagName"}

IsRenameCall(c) ==
    c.method = "PUT" /\ c.endpoint.path = <<"tags">> /\ Len(c.endpoint.ids) = 1

IsTagNotesGet(c) ==
    c.method = "GET" /\ c.endpoint.path = <<"tags", "notes">> /\ Len(c.endpoint.ids) = 1

\* C13: renameTagByName and getNotesByTagName first search the name among
\* the tags.  When the result holds no tag whose title is the name,
\* whatever the case, the search is the only call and the operation fails
\* with 'Tag not found: <name>'.  Every later call is made only when the
\* result holds such a tag and carries the id of one: the PUT of the new
\* title for a rename, the GETs of the tag's notes otherwise, and with such
\* a tag the operation does not end before that call.
C13_TagNotFound ==
    \A p \in Procs : IsFindByName(p) =>
        LET log == CallsOf(p)
            name == cl[p].args.name
        IN
        /\ IsTagSearch(log[1])
        /\ SearchedName(log[1]) = name
        /\ Found(log[1]) /\ MatchesIn(log[1], name) = {} =>
            /\ Len(log) = 1
            /\ cl[p].res.st # "ok"
            /\ cl[p].pc = "done" => cl[p].res = Thrown(<<"Tag not found: ", name>>)
        /\ \A i \in 2..Len(log) :
            /\ Found(log[1])
            /\ \E k \in MatchesIn(log[1], name) :
                log[i].endpoint.ids = <<log[1].out.v.items.v[k].id>>
            /\ cl[p].op = "renameTagByName" =>
                /\ i = 2
                /\ IsRenameCall(log[i])
                /\ log[i].body = [title |-> cl[p].args.newName]
            /\ cl[p].op = "getNotesByTagName" => IsTagNotesGet(log[i])
        /\ cl[p].pc = "done" /\ Found(log[1]) /\ MatchesIn(log[1], name) # {} =>
            Len(log) >= 2

C13_Witness ==
    /\ cl[1].op = "renameTagByName"
    /\ cl[1].pc = "done"
    /\ cl[1].args.name = <<"w">>
    /\ Len(CallsOf(1)) = 1
    /\ CallsOf(1)[1].out = OkJson(Page(Arr(<<TagWu>>), "false"))
    /\ cl[1].res = Thrown(<<"Tag not found: ", <<"w">>>>)

UsesTagId(c) == IsAssociate(c) \/ IsDissociate(c) \/ IsRenameCall(c) \/ IsTagNotesGet(c)

\* The search whose result call number i of the log works with: the last
\* search issued before it.
LastSearchBefore(log, i) ==
    log[CHOOSE j \in 1..(i - 1) :
            /\ IsTagSearch(log[j])
            /\ \A k \in (j + 1)..(i - 1) : ~IsTagSearch(log[k])]

FirstOf(S) == CHOOSE k \in S : \A m \in S : k <= m

IsNameBased(p) ==
    cl[p].op \in {"addTagsToNote", "removeTagsFromNote", "renameTagByName",
                   "getNotesByTagName"}

\* C14: in add, remove, rename-by-name and get-notes-by-name, a call that
\* carries a tag id found by a search (every call with a tag id except the
\* association of a tag just created) carries the id of the first
\* candidate, in result order, whose whole title equals the searched name
\* whatever the case; such a candidate exists, and a candidate whose title
\* only holds the name is never the one used, wherever it stands.
C14_ExactMatchOnly ==
    \A p \in Procs : IsNameBased(p) =>
        LET log == CallsOf(p) IN
        \A i \in 1..Len(log) :
            UsesTagId(log[i]) /\ ~(i > 1 /\ IsTagCreate(log[i - 1])) =>
                /\ i > 1
                /\ LET s == LastSearchBefore(log, i)
                       name == SearchedName(s)
                   IN /\ Found(s)
                      /\ MatchesIn(s, name) # {}
                      /\ LET first == s.out.v.items.v[FirstOf(MatchesIn(s, name))] IN
                         /\ log[i].endpoint.ids[1] = first.id
                         /\ ToLowerCase(first.title) = ToLowerCase(name)
                         /\ Len(first.title) = Len(name)

C14_Witness ==
    /\ cl[1].op = "getNotesByTagName"
    /\ cl[1].pc = "done"
    /\ cl[1].res.st = "ok"
    /\ cl[1].args.name = <<"w">>
    /\ CallsOf(1)[1].out = OkJson(Page(Arr(<<TagWu, TagLw, TagW>>), "false"))
    /\ Len(CallsOf(1)) = 2
    /\ CallsOf(1)[2].endpoint.ids = <<3>>

----------------------------------------------------------------------------
(* Properties of the transport client (SpecRequest) *)

IsSingleRequest(p) == cl[p].op \in {"ping", "deleteNote"}

\* C15: a response with a non-success status S and text T makes request
\* throw 'Failed to connect to Joplin: Joplin API error (S): T', with S and
\* T as they came; a network failure with message M makes it throw
\* 'Failed to connect to Joplin: M'.
C15_ErrorMessages ==
    \A p \in Procs : IsSingleRequest(p) =>
        LET out == CallsOf(p)[1].out IN
        /\ out.k = "http" =>
            /\ cl[p].pc = "done"
            /\ cl[p].res = Thrown(<<"Failed to connect to Joplin: ",
                                    "Joplin API error (", out.status, "): ", out.text>>)
        /\ out.k = "net" =>
            /\ cl[p].pc = "done"
            /\ cl[p].res = Thrown(<<"Failed to connect to Joplin: ", out.msg>>)

C15_Witness ==
    /\ cl[1].op = "ping"
    /\ cl[1].pc = "done"
    /\ CallsOf(1)[1].out = HttpError(404, "Not Found")
    /\ cl[1].res = Thrown(<<"Failed to connect to Joplin: ",
                            "Joplin API error (", 404, "): ", "Not Found">>)

\* C16 as stated: only a network failure ends in an error of the 'failed
\* to connect' category; the error of a non-success status carries the
\* status and the text and is not one of that category.
C16_CategoriesApart ==
    \A p \in Procs : IsSingleRequest(p) /\ cl[p].pc = "done" =>
        LET out == CallsOf(p)[1].out IN
        /\ out.k = "net" =>
            /\ cl[p].res.st = "error"
            /\ Head(cl[p].res.err) = "Failed to connect to Joplin: "
        /\ out.k = "http" =>
            /\ cl[p].res.st = "error"
            /\ Len(cl[p].res.err) >= 4
            /\ SubSeq(cl[p].res.err, Len(cl[p].res.err) - 3, Len(cl[p].res.err))
                   = <<"Joplin API error (", out.status, "): ", out.text>>
            /\ Head(cl[p].res.err) # "Failed to connect to Joplin: "

\* C17: an operation that is one call of request has issued exactly one
\* HTTP request, whatever the answer: once the request is answered, by a
\* success or by a failure, the operation is over and nothing is issued
\* again.
C17_OneAttempt ==
    \A p \in Procs : IsSingleRequest(p) =>
        LET log == CallsOf(p) IN
        /\ Len(log) = 1
        /\ Answered(log[1]) <=> cl[p].pc = "done"
        /\ IsFailure(log[1].out) => cl[p].res.st = "error"

C17_Witness ==
    /\ cl[1].op = "deleteNote"
    /\ cl[1].pc = "done"
    /\ cl[1].res.st = "error"
    /\ Len(calls) = 1
    /\ calls[1].out = HttpError(503, "")

----------------------------------------------------------------------------
(* Properties of getNote (SpecNotes) *)

IsNoteFetch(c, n) ==
    c.method = "GET" /\ c.endpoint.path = <<"notes">> /\ c.endpoint.ids = <<n>>

\* The items a page response adds to the list
ItemsOfPage(out) == IF out.v.items.arr THEN out.v.items.v ELSE <<>>

\* The tag list the page responses of calls 2.. of the log make together
TagListOf(log) == Concat([i \in 1..(Len(log) - 1) |-> ItemsOfPage(log[i + 1].out)])

\* The tag pages of the log are a whole list: pages all, the last one the
\* only one that does not report more.
WholeTagList(log) ==
    /\ \A i \in 2..Len(log) : IsPage(log[i].out)
    /\ \A i \in 2..Len(log) : (log[i].out.v.has_more = "true") <=> i < Len(log)

FailedFetch(log) ==
    \E i \in 1..Len(log) : IsFailure(log[i].out) \/ (i > 1 /\ log[i].out = OkEmpty)

C18_Result ==
    \A p \in Procs : cl[p].op = "getNote" =>
        LET log == CallsOf(p)
            n == cl[p].args.note_id
        IN
        /\ Len(log) >= 2
        /\ IsNoteFetch(log[1], n)
        /\ \A i \in 2..Len(log) :
            IsNoteTagsGet(log[i], n) /\ ParamOf(log[i].endpoint, "page") = i - 1
        /\ cl[p].res.st = "ok" =>
            /\ \A i \in 1..Len(log) : Answered(log[i])
            /\ ~FailedFetch(log)
            /\ WholeTagList(log)
            /\ LET note == IF log[1].out.k = "json" THEN log[1].out.v ELSE [t |-> "null"]
                   own == IF log[1].out.k = "json" THEN DOMAIN note ELSE {}
                   merged == cl[p].res.val
               IN /\ DOMAIN merged = own \cup {"tags"}
                  /\ merged.tags = TagListOf(log)
                  /\ \A k \in own \ {"tags"} : merged[k] = note[k]
        /\ FailedFetch(log) => cl[p].res.st # "ok"
        /\ cl[p].pc = "done" => cl[p].res.st \in {"ok", "error"}
        /\ cl[p].pc = "done" /\ cl[p].res.st = "error" => FailedFetch(log)

C18_Start ==
    \A p \in Procs : cl[p].op = "idle" /\ cl'[p].op = "getNote" =>
        /\ Len(calls') = Len(calls) + 2
        /\ calls'[Len(calls) + 1].out = Pending
        /\ calls'[Len(calls) + 2].out = Pending

\* C18: getNote issues the fetch of the note and the first page of the
\* note's tag list together, before either is answered, and further tag
\* pages in page order.  It returns only when every call is answered, none
\* failed and the tag pages make a whole list; what it returns is the
\* note's fields with tags set to the tags of all the pages in order, in
\* place of a tags field of the note; when a fetch failed it does not
\* return a record, and it fails only when a fetch failed.
C18_GetNoteMerge == [](C18_Result) /\ [][C18_Start]_vars

C18_Witness ==
    /\ cl[1].op = "getNote"
    /\ cl[1].pc = "done"
    /\ Len(CallsOf(1)) = 3
    /\ CallsOf(1)[1].out = OkJson(NoteJsonTagged(1))
    /\ cl[1].res = Returned([t |-> "note", id |-> 1, body |-> svc.body[1],
                             tags |-> OneTag \o OneTag])

----------------------------------------------------------------------------
(* Properties of append and prepend next to another writer (SpecRace) *)

ExternalWrites == SelectSeq(calls, LAMBDA c : c.proc = ExternalWriter)

\* C19: when another writer has put X in place of the body A that
\* appendToNote or prependToNote read, before the service took the
\* operation's write, the operation still writes A \n\n B (B \n\n A), built
\* from the A it read: it issues one PUT and no second read, it ends with
\* the success of that PUT, and the note is left with A \n\n B, without X.
C19_LostUpdate ==
    \A p \in Procs :
        IsRmw(p) /\ ExternalWrites # <<>> /\ CallsOf(p)[1].out.k = "json" =>
            LET log == CallsOf(p)
                n == cl[p].args.note_id
                A == log[1].out.v.body
                B == cl[p].args.content
                X == ExternalWrites[1].body.body
                written == IF cl[p].op = "appendToNote"
                           THEN A \o <<"\n", "\n">> \o B
                           ELSE B \o <<"\n", "\n">> \o A
            IN
            /\ X # A
            /\ Len(SelectSeq(log, LAMBDA c : IsNoteFetch(c, n))) = 1
            /\ Len(SelectSeq(log, LAMBDA c : c.method = "PUT")) <= 1
            /\ \A i \in 1..Len(log) : log[i].method = "PUT" =>
                /\ i = Len(log)
                /\ log[i].body = [body |-> written]
                /\ log[i].out.k \in {"json", "empty"} =>
                    /\ cl[p].pc = "done"
                    /\ cl[p].res.st = "ok"
                    /\ svc.body[n] = written
                    /\ svc.body[n] # X
                /\ IsFailure(log[i].out) => svc.body[n] = X

C19_Witness ==
    /\ cl[1].op = "appendToNote"
    /\ cl[1].pc = "done"
    /\ cl[1].res.st = "ok"
    /\ cl[1].args.content = <<"b">>
    /\ CallsOf(1)[1].out = OkJson([t |-> "note", id |-> 1, body |-> <<"a">>])
    /\ ExternalWrites # <<>>
    /\ ExternalWrites[1].body = [body |-> <<"b">>]
    /\ svc.body[1] = <<"a", "\n", "\n", "b">>

----------------------------------------------------------------------------
(* Properties of the client's construction (SpecConstruct) *)

\* A value that is a decimal integer as a whole: digits only, after an
\* optional minus sign
IsInteger(s) ==
    LET ds == IF s # <<>> /\ Head(s) = "-" THEN Tail(s) ELSE s IN
    ds # <<>> /\ \A i \in 1..Len(ds) : IsDigit(ds[i])

\* The integer such a value denotes
RECURSIVE ValueOfDigits(_, _)
ValueOfDigits(ds, acc) ==
    IF ds = <<>> THEN acc ELSE ValueOfDigits(Tail(ds), 10 * acc + DigitValue(Head(ds)))
IntegerOf(s) ==
    IF Head(s) = "-" THEN 0 - ValueOfDigits(Tail(s), 0) ELSE ValueOfDigits(s, 0)

WarnedAbout(res, raw) ==
    \E i \in 1..Len(res.errors) :
        /\ Len(res.errors[i]) = 3
        /\ res.errors[i][1] = "[Warning] Invalid JOPLIN_PORT: \""
        /\ res.errors[i][2] = raw

\* C20 as stated: for a JOPLIN_PORT set to a value that is not a number or
\* that denotes a number outside 1..65535, the base URL has port 41184 and
\* the 'Invalid JOPLIN_PORT' line is written; for a value that denotes an
\* integer of 1..65535 the base URL has that port and no such line is
\* written; the construction always returns.
C20_PortFallback ==
    \A p \in Procs :
        cl[p].op = "constructor" /\ cl[p].args.JOPLIN_PORT.given
            /\ cl[p].args.JOPLIN_PORT.v # <<>> =>
                LET raw == cl[p].args.JOPLIN_PORT.v
                    res == cl[p].res.val
                    inRange == IsInteger(raw) /\ IntegerOf(raw) \in 1..65535
                IN
                /\ cl[p].res.st = "ok"
                /\ inRange =>
                    /\ res.baseUrl = <<"http://localhost:", IntegerOf(raw)>>
                    /\ ~WarnedAbout(res, raw)
                /\ ~inRange =>
                    /\ res.baseUrl = <<"http://localhost:", 41184>>
                    /\ WarnedAbout(res, raw)

----------------------------------------------------------------------------
(* Properties of the CallTool handler (SpecTool) *)

IsToolRun(p) == cl[p].pc = "returned"

\* The operation behind the tool came to its end: every request of the
\* invocation was answered with success, the last of them is the write of
\* the tool, and 'update_notebook' was answered with the notebook.
ToolSucceeded(p) ==
    LET log == CallsOf(p) IN
    /\ log # <<>>
    /\ \A i \in 1..Len(log) : log[i].out.k \in {"json", "empty"}
    /\ log[Len(log)].method \in {"DELETE", "PUT"}
    /\ cl[p].op = "update_notebook" => log[Len(log)].out.k = "json"

\* C21: every tool invocation the handler has finished has returned a
\* result, never thrown; the result of a failed invocation (a failed remote
\* call, an unknown tool, a missing selector, no arguments object) carries
\* isError = true and a text 'Error: <message>'; the result of a successful
\* one carries no isError.
C21_ErrorsReturned ==
    \A p \in Procs :
        IsToolRun(p) =>
            /\ cl[p].res.st = "ok"
            /\ IF ToolSucceeded(p)
               THEN "isError" \notin DOMAIN cl[p].res.val
               ELSE /\ "isError" \in DOMAIN cl[p].res.val
                    /\ cl[p].res.val.isError
                    /\ Len(cl[p].res.val.text) > 1
                    /\ Head(cl[p].res.val.text) = "Error: "

IsNoteDelete(c) == c.method = "DELETE" /\ c.endpoint.path = <<"notes">>

IsPermanent(c) == HasParam(c.endpoint, "permanent")

\* C22: the DELETE that deleteNote issues for a note carries permanent=1
\* exactly when its permanent flag is true, and nothing else in its query;
\* the DELETE of the delete_note tool never carries it, so every permanent
\* delete in the log comes from a direct call of deleteNote with the flag.
C22_NoPermanentDelete ==
    /\ \A p \in Procs :
        cl[p].op \in {"deleteNote", "delete_note"} =>
            /\ Len(CallsOf(p)) <= 1
            /\ "note_id" \in DOMAIN cl[p].args <=> Len(CallsOf(p)) = 1
            /\ \A k \in 1..Len(CallsOf(p)) :
                /\ IsNoteDelete(CallsOf(p)[k])
                /\ CallsOf(p)[k].endpoint.ids = <<cl[p].args.note_id>>
                /\ CallsOf(p)[k].endpoint.query =
                        IF cl[p].op = "deleteNote" /\ cl[p].args.permanent
                        THEN << <<"?", "permanent", 1>> >>
                        ELSE <<>>
    /\ \A i \in 1..Len(calls) :
        IsNoteDelete(calls[i]) /\ IsPermanent(calls[i]) =>
            /\ cl[calls[i].proc].op = "deleteNote"
            /\ cl[calls[i].proc].args.permanent

\* The delete_note tool has moved a note to the trash: its DELETE, without
\* the permanent parameter, was answered with success.
C22_Witness ==
    \E p \in Procs :
        /\ cl[p].op = "delete_note"
        /\ IsToolRun(p)
        /\ CallsOf(p) # <<>>
        /\ cl[p].res = Returned(ToolResult(<<"Moved note to trash: ", cl[p].args.note_id>>))
        /\ ~IsPermanent(CallsOf(p)[1])
        /\ cl[p].args.note_id \notin svc.notes

IsNotebookUpdate(c) == c.method = "PUT" /\ c.endpoint.path = <<"folders">>

\* C23: the update that the update_notebook tool sends holds every field
\* the caller supplied, title or parent_id, with the value supplied; so
\* parent_id given as the empty string is sent as the empty string.
C23_SuppliedFieldsSent ==
    \A p \in Procs :
        cl[p].op = "update_notebook" =>
            \A k \in 1..Len(CallsOf(p)) :
                /\ IsNotebookUpdate(CallsOf(p)[k])
                /\ \A f \in {"title", "parent_id"} :
                    cl[p].args[f].given =>
                        /\ f \in DOMAIN CallsOf(p)[k].body
                        /\ CallsOf(p)[k].body[f] = cl[p].args[f].v

----------------------------------------------------------------------------
(* Properties of the limit of a list operation (SpecPage) *)

\* C24: a list operation called with limit = n returns at most n items,
\* whatever the size of the remote collection.
C24_AtMostLimit ==
    \A p \in Procs :
        /\ cl[p].op = "listTags"
        /\ cl[p].pc = "done"
        /\ cl[p].res.st = "ok"
        /\ cl[p].args.limit.given
        => Len(cl[p].res.val) <= cl[p].args.limit.v

----------------------------------------------------------------------------
(* Properties of a second invocation of the tag operations (SpecRetry) *)

\* No request so far has failed: the service has answered each with
\* success, and with a JSON text where one is read.
NoFailedCall(log) == \A i \in 1..Len(log) : ~FailedCall(log[i])

C25_SecondRun ==
    cl[2].op # "idle" /\ NoFailedCall(calls) =>
        /\ \A k \in 1..Len(CallsOf(2)) : ~IsTagCreate(CallsOf(2)[k])
        /\ cl[2].pc = "done" => cl[2].res = Returned(Undefined)

C25_Step ==
    cl'[2].op # "idle" /\ NoFailedCall(calls') =>
        /\ svc'.tags = svc.tags
        /\ svc'.assoc = svc.assoc

----------------------------------------------------------------------------
(* Properties of the pagination loop's end (SpecPageFair) *)

AllItems(log) == Concat([i \in 1..Len(log) |-> PageItems(log[i].out.v)])

\* Page i of the run has been answered with an envelope whose has_more is
\* not the boolean true.
IsLastPage(out) == IsPage(out) /\ out.v.has_more # "true"

C26_Loop ==
    \A p \in Procs : cl[p].op = "listTags" =>
        LET log == CallsOf(p) IN
        /\ \A i \in 1..Len(log) :
            /\ IsPage(log[i].out) =>
                (log[i].out.v.has_more = "true" <=> i < Len(log))
            /\ i < Len(log) => ParamOf(log[i + 1].endpoint, "page") = i + 1
            /\ IsLastPage(log[i].out) =>
                /\ cl[p].pg.st = "done"
                /\ cl[p].pg.allItems = AllItems(log)
                /\ cl[p].pc = "done" => cl[p].res = Returned(AllItems(log))
        /\ (\A i \in 1..Len(log) : log[i].out # Pending => IsPageWith(log[i].out, "true")) =>
            /\ cl[p].res = Pend
            /\ log[Len(log)].out = Pending
            /\ ParamOf(log[Len(log)].endpoint, "page") = Len(log)

C26_Stopped ==
    \E i \in 1..Len(CallsOf(1)) : IsLastPage(CallsOf(1)[i].out)

C26_Returned == cl[1].pc = "done" /\ cl[1].res.st = "ok"

\* C26: a further page is requested exactly when the last answered page
\* reports has_more as the boolean true; a page with any other has_more
\* ends the loop with its items included, and the operation then returns
\* in the end; while every answered page reports true the operation has
\* not returned and the request for the next page number is out, whatever
\* the number of pages so far.
C26_HasMoreLoop == [](C26_Loop) /\ (C26_Stopped ~> C26_Returned)

\* Page 1 reported true and page 2 a truthy has_more that is not the
\* boolean: the operation has returned both pages' items after two
\* requests.
C26_Witness ==
    /\ cl[1].op = "listTags"
    /\ cl[1].pc = "done"
    /\ Len(CallsOf(1)) = 2
    /\ IsPageWith(CallsOf(1)[1].out, "true")
    /\ IsPageWith(CallsOf(1)[2].out, "truthy")
    /\ cl[1].res = Returned(<<"x", "y">>)

----------------------------------------------------------------------------
(* Properties of safe resource deletion next to another writer             *)
(* (SpecResourceRace)                                                      *)

\* C27: the delete of delete_resource is issued only when the lookup of
\* the same invocation returned no notes, and that is all it guarantees:
\* when a note has come to reference the resource after that lookup, the
\* delete is issued all the same, and once it is answered with success the
\* resource is gone while a note references it.
C27_NoGuaranteeAtDelete ==
    \A p \in Procs : cl[p].op = "delete_resource" =>
        LET r == cl[p].args.resource_id IN
        /\ DeleteCalls(p) # <<>> => cl[p].pg.st = "done" /\ cl[p].pg.allItems = <<>>
        /\ ExternalWrites # <<>> /\ cl[p].pc # "lookup" =>
            /\ Len(DeleteCalls(p)) = 1
            /\ IsDeleteResource(DeleteCalls(p)[1], r)
            /\ svc.refs[r] # {}
            /\ DeleteCalls(p)[1].out.k \in {"json", "empty"} =>
                /\ r \notin svc.resources
                /\ "isError" \notin DOMAIN cl[p].res.val

\* No note referenced the resource at the lookup; a note came to reference
\* it before the delete was issued; the delete has succeeded.
C27_Witness ==
    /\ cl[1].op = "delete_resource"
    /\ cl[1].pc = "done"
    /\ cl[1].args.resource_id \notin svc.resources
    /\ \E i, j \in 1..Len(calls) :
        /\ i < j
        /\ calls[i].proc = ExternalWriter
        /\ IsDeleteResource(calls[j], cl[1].args.resource_id)
        /\ svc.refs[cl[1].args.resource_id] = {calls[i].endpoint.ids[1]}

----------------------------------------------------------------------------
(* Properties of find-or-create under two invocations (SpecTagRace) *)

\* The tag of the service that the answer to a creation call names
IsCreatedTag(c, k) ==
    svc.tags[k] = [id |-> c.out.v.id, title |-> c.body.title]

C28_Creations ==
    /\ \A p \in Procs : cl[p].op = "addTagsToNote" =>
        LET log == CallsOf(p) IN
        \A k \in 1..Len(log) :
            IsTagSearch(log[k]) /\ Found(log[k])
                /\ MatchesIn(log[k], SearchedName(log[k])) = {} =>
                    IF k < Len(log)
                    THEN /\ IsTagCreate(log[k + 1])
                         /\ log[k + 1].body.title = SearchedName(log[k])
                    ELSE cl[p].pc = "search"
    /\ \A i, j \in 1..Len(calls) :
        /\ i < j
        /\ IsTagCreate(calls[i]) /\ calls[i].out.k = "json"
        /\ IsTagCreate(calls[j]) /\ calls[j].out.k = "json"
        /\ SameIgnoringCase(calls[i].body.title, calls[j].body.title)
        => \E a, b \in 1..Len(svc.tags) :
            a # b /\ IsCreatedTag(calls[i], a) /\ IsCreatedTag(calls[j], b)

C28_Reuse ==
    \A p \in Procs :
        /\ cl[p].op = "addTagsToNote"
        /\ cl[p].pc = "search"
        /\ cl[p].pg.st = "done"
        /\ cl'[p].pc # "search"
        /\ \E k \in 1..Len(svc.tags) :
            SameIgnoringCase(svc.tags[k].title, cl[p].tags[cl[p].i])
        => /\ Len(calls') = Len(calls) + 1
           /\ calls'[Len(calls')].proc = p
           /\ IsAssociate(calls'[Len(calls')])
           /\ \E k \in 1..Len(svc.tags) :
                /\ SameIgnoringCase(svc.tags[k].title, cl[p].tags[cl[p].i])
                /\ calls'[Len(calls')].endpoint.ids = <<svc.tags[k].id>>

\* C28: an invocation whose search found no tag of the name goes on to
\* create the tag, whatever another invocation has done since; so two
\* invocations whose searches both ended before either creation both
\* create, and the service then holds two tags of the same title.  An
\* invocation whose search is answered when a tag of the name exists
\* (created by the other, say) associates that tag and creates none.
C28_FindOrCreateNotAtomic == [](C28_Creations) /\ [][C28_Reuse]_vars

\* Both invocations searched the name before either creation was issued,
\* both created a tag, and the service holds the two tags.
C28_Witness ==
    \E s1, s2, c1, c2 \in 1..Len(calls) :
        /\ s1 < s2 /\ s2 < c1 /\ c1 < c2
        /\ IsTagSearch(calls[s1]) /\ IsTagSearch(calls[s2])
        /\ calls[s1].proc # calls[s2].proc
        /\ SearchedName(calls[s1]) = SearchedName(calls[s2])
        /\ IsTagCreate(calls[c1]) /\ calls[c1].out.k = "json"
        /\ IsTagCreate(calls[c2]) /\ calls[c2].out.k = "json"
        /\ calls[c1].proc # calls[c2].proc
        /\ calls[c1].body.title = calls[c2].body.title
        /\ \E a, b \in 1..Len(svc.tags) :
            a # b /\ svc.tags[a].title = svc.tags[b].title
        /\ \A p \in Procs : cl[p].pc = "done" /\ cl[p].res.st = "ok"

----------------------------------------------------------------------------
(* Properties of getNote's sub-calls after a failure (SpecNotes) *)

\* getNote has thrown because its note fetch failed.
NoteFetchFailed(p) ==
    cl[p].op = "getNote" /\ cl[p].pc = "done" /\ cl[p].note.st = "failed"

C29_Rejected ==
    \A p \in Procs : NoteFetchFailed(p) =>
        /\ cl[p].res.st = "error"
        /\ cl[p].pg.st # "failed" => cl[p].res = Thrown(cl[p].note.err)
        /\ cl[p].pg.st \in {"await", "done", "failed"}
        /\ cl[p].pg.st = "await" =>
            /\ calls[cl[p].pg.req].proc = p
            /\ calls[cl[p].pg.req].out = Pending
            /\ IsNoteTagsGet(calls[cl[p].pg.req], cl[p].args.note_id)
            /\ ParamOf(calls[cl[p].pg.req].endpoint, "page") = cl[p].pg.page

C29_PagesGoOn ==
    \A p \in Procs :
        /\ NoteFetchFailed(p)
        /\ cl[p].pg.st = "await"
        /\ calls'[cl[p].pg.req].out # Pending
        => /\ cl'[p].res = cl[p].res
           /\ IF IsPage(calls'[cl[p].pg.req].out)
                    /\ calls'[cl[p].pg.req].out.v.has_more = "true"
              THEN /\ Len(calls') = Len(calls) + 1
                   /\ calls'[Len(calls')].proc = p
                   /\ IsNoteTagsGet(calls'[Len(calls')], cl[p].args.note_id)
                   /\ ParamOf(calls'[Len(calls')].endpoint, "page") = cl[p].pg.page + 1
                   /\ cl'[p].pg.st = "await"
              ELSE /\ Len(calls') = Len(calls)
                   /\ cl'[p].pg.st \in {"done", "failed"}

\* C29: when getNote has thrown because the note fetch failed, the tag
\* pagination it started is not cancelled: its page request stays out, and
\* each page answered with has_more = true after the failure was reported
\* is followed by the request for the next page, until a page says
\* otherwise or fails; the reported failure stands.
C29_NoCancellation == [](C29_Rejected) /\ [][C29_PagesGoOn]_vars

\* getNote has thrown the note fetch's error, the first tag page was
\* answered with has_more = true, and the request for page 2 is out.
C29_Witness ==
    /\ NoteFetchFailed(1)
    /\ cl[1].res = Thrown(cl[1].note.err)
    /\ cl[1].pg.st = "await"
    /\ cl[1].pg.page = 2
    /\ IsPageWith(CallsOf(1)[2].out, "true")
    /\ CallsOf(1)[3].out = Pending

----------------------------------------------------------------------------
(* Properties of the write of appendToNote and prependToNote after a       *)
(* failed read (SpecNotes)                                                 *)

\* A request of the read phase that made getNote throw: the note fetch
\* answered with a failure, or a tag-list page answered with a failure or
\* with an empty text (a null page).
ReadFailure(c, n) ==
    \/ IsNoteGet(c, n) /\ IsFailure(c.out)
    \/ IsNoteTagsGet(c, n) /\ (IsFailure(c.out) \/ c.out = OkEmpty)

C30_WriteAfterReads ==
    \A p \in Procs : IsRmw(p) =>
        LET log == CallsOf(p)
            n == cl[p].args.note_id
        IN
        /\ \A i \in 1..Len(log) : IsNotePut(log[i], n) =>
            /\ log[1].out.k \in {"json", "empty"}
            /\ \A j \in 2..(i - 1) :
                /\ IsPage(log[j].out)
                /\ log[j].out.v.has_more = "true" <=> j < i - 1
        /\ (\E j \in 1..Len(log) : ReadFailure(log[j], n)) =>
            /\ \A i \in 1..Len(log) : ~IsNotePut(log[i], n)
            /\ cl[p].res.st # "ok"
            /\ cl[p].pc \in {"getNote", "done"}
            /\ cl[p].pc = "done" =>
                \E j \in 1..Len(log) :
                    /\ ReadFailure(log[j], n)
                    /\ cl[p].res = Thrown(IF log[j].out = OkEmpty
                                          THEN EmptyResponseMessage(log[j].endpoint)
                                          ELSE ErrorOfCall(log[j]))

C30_BodyKept ==
    svc'.body # svc.body =>
        \E p \in Procs :
            /\ IsRmw(p)
            /\ cl[p].pc = "write"
            /\ calls'[cl[p].req].out.k \in {"json", "empty"}
            /\ \A j \in 1..Len(CallsOf(p)) : ~ReadFailure(CallsOf(p)[j], cl[p].args.note_id)

\* C30: appendToNote and prependToNote issue the PUT only after the note
\* fetch was answered with success and every page of the tag list arrived,
\* up to the one that ends it; when the note fetch fails or a tag-list
\* page fails or is null, no PUT is issued, the operation throws that
\* error, and no step changes a note body except the answer to a PUT of an
\* operation whose reads all succeeded.
C30_NoWriteAfterFailedRead == [](C30_WriteAfterReads) /\ [][C30_BodyKept]_vars

\* appendToNote read the note, got the first tag page with has_more =
\* true and a null second page: it has thrown without a write.
C30_Witness ==
    /\ cl[1].op = "appendToNote"
    /\ cl[1].pc = "done"
    /\ Len(CallsOf(1)) = 3
    /\ CallsOf(1)[1].out.k = "json"
    /\ IsPageWith(CallsOf(1)[2].out, "true")
    /\ CallsOf(1)[3].out = OkEmpty
    /\ cl[1].res = Thrown(EmptyResponseMessage(CallsOf(1)[3].endpoint))

====
